---- MODULE Spec2Model ----
(***************************************************************************)
(* MyKeyChain (src/mykeychain.py): a console password manager.  Accounts   *)
(* live in users.json, passwords are obfuscated with a Caesar shift over   *)
(* the alphabet of charset.txt.                                            *)
(*                                                                         *)
(* A Python str is modelled as a sequence of code points (ord of each      *)
(* character), so that len, indexing, membership, comparison and strip     *)
(* are what Python computes: "abc" is <<97, 98, 99>>.                      *)
(***************************************************************************)
EXTENDS Integers, Sequences, FiniteSets, TLC

VARIABLES
    charsetFile,   \* charset.txt: [exists, content]
    CHARSET,       \* the module global CHARSET
    usersFile,     \* users.json: [exists, json, doc, text]
    users,         \* the dict `users` a running login()/session holds
    pc,            \* the prompt the program is blocked on
    loginName,     \* login_name of the running login()/session
    tries,         \* loop variable of login()'s for tries in range(3)
    pend,          \* add_password's locals: [resource, category], and (history)
                   \* before: the account as the call found it
    last,          \* what the last step did and printed or raised
    plainMem,      \* history: the plaintext behind each record of the session's account
    plainFile,     \* history: the plaintexts behind the records of users.json
    cText, cShift, cDecrypt, cOut, cBack, cStage,  \* caesar_cipher exercised alone
    lists          \* the list objects get_categories() has returned, exercised alone

vars == <<charsetFile, CHARSET, usersFile, users, pc, loginName, tries, pend,
          last, plainMem, plainFile, cText, cShift, cDecrypt, cOut, cBack, cStage,
          lists>>

mainVars == <<usersFile, users, pc, loginName, tries, pend, last, plainMem, plainFile>>
\* what the program itself never touches: the functions exercised alone
cipherVars == <<cText, cShift, cDecrypt, cOut, cBack, cStage, lists>>

(***************************************************************************)
(* Strings                                                                 *)
(***************************************************************************)
Range(s) == {s[i] : i \in 1..Len(s)}

\* range(a, b) of code points as a string
Chars(a, b) == [i \in 1..(b - a + 1) |-> a + i - 1]

\* c lies in one of the ranges <<first, last>>
InRanges(c, ranges) == \E r \in ranges : r[1] <= c /\ c <= r[2]

\* The tables of characters below are long and most characters are ASCII:
\* the entries of a table that begin in ASCII are the only ones that can hold
\* an ASCII character, and such a character is looked up in them alone.
Ascii(table) == {r \in table : r[1] < 128}
Near(c, table, ascii) == IF c < 128 THEN ascii ELSE table

\* the white space str.strip() removes (str.isspace()): <<first, last>> code points
SpaceRanges ==
    {<<9, 13>>, <<28, 32>>, <<133, 133>>, <<160, 160>>, <<5760, 5760>>, <<8192, 8202>>,
     <<8232, 8233>>, <<8239, 8239>>, <<8287, 8287>>, <<12288, 12288>>}

SpaceRangesAscii == Ascii(SpaceRanges)

\* str.isspace of one character
IsSpace(c) == InRanges(c, Near(c, SpaceRanges, SpaceRangesAscii))

\* s without the characters at either end that are blank, blank[i] telling
\* whether s[i] is: from the first character that is not blank to the last
\* (from Len(s) + 1 to 0, the empty string, when all are)
StripOf(s, blank) ==
    LET n == Len(s)
        lo == CHOOSE i \in 1..(n + 1) :
                /\ i = n + 1 \/ ~blank[i]
                /\ \A j \in 1..(i - 1) : blank[j]
        hi == CHOOSE i \in 0..n :
                /\ i = 0 \/ ~blank[i]
                /\ \A j \in (i + 1)..n : blank[j]
    IN  SubSeq(s, lo, hi)

\* str.strip()
Strip(s) == StripOf(s, [i \in 1..Len(s) |-> IsSpace(s[i])])

(***************************************************************************)
(* charset.txt and load_charset                                            *)
(***************************************************************************)
\* '0123456789' 'a..z' 'A..Z' and the 32 punctuation marks !"#$%&'()*+,-./
\* :;<=>?@ [\]^_` {|}~
\* the default alphabet without its first punctuation mark
default_charset_nobang ==
    Chars(48, 57) \o Chars(97, 122) \o Chars(65, 90) \o Chars(34, 47)
        \o Chars(58, 64) \o Chars(91, 96) \o Chars(123, 126)

default_charset ==
    Chars(48, 57) \o Chars(97, 122) \o Chars(65, 90) \o Chars(33, 47)
        \o Chars(58, 64) \o Chars(91, 96) \o Chars(123, 126)

\* content: the characters the bytes of the file decode to
NoCharsetFile == [exists |-> FALSE, content |-> <<>>]

\* a charset.txt somebody wrote by hand, its line ended by CR LF: " ~aZ\r\n"
CustomCharsetFile == [exists |-> TRUE, content |-> <<32, 126, 97, 90, 13, 10>>]

\* load_charset(): the file after the call, and the value returned
load_charset_file(f) ==
    IF ~f.exists THEN [exists |-> TRUE, content |-> default_charset] ELSE f

\* f.read() of a file opened in text mode: "\r\n" and "\r" are read as "\n"
read_text(content) ==
    LET marked == [i \in 1..Len(content) |->
                      [ch |-> IF content[i] = 13 THEN 10 ELSE content[i],
                       dropped |-> content[i] = 10 /\ i > 1 /\ content[i - 1] = 13]]
        read(m) == ~m.dropped
        kept == SelectSeq(marked, read)
    IN  [k \in 1..Len(kept) |-> kept[k].ch]

load_charset(f) == Strip(read_text(load_charset_file(f).content))

InitCharset(files) ==
    \E f \in files :
        /\ charsetFile = load_charset_file(f)
        /\ CHARSET = load_charset(f)

(***************************************************************************)
(* caesar_cipher                                                           *)
(***************************************************************************)
\* CHARSET.index(char), 0-based: the first position holding char
IndexOf(seq, c) == (CHOOSE i \in 1..Len(seq) : seq[i] = c /\ \A j \in 1..(i - 1) : seq[j] # c) - 1

caesar_cipher_wrongdir(text, shift, decrypt) ==
    IF text = <<>> THEN text
    ELSE [i \in 1..Len(text) |->
            IF text[i] \in Range(CHARSET)
            THEN CHARSET[((IndexOf(CHARSET, text[i]) + shift) % Len(CHARSET)) + 1]
            ELSE text[i]]

\* characters outside the alphabet are left out
caesar_cipher_skipping(text, shift, decrypt) ==
    LET direction == IF decrypt THEN -1 ELSE 1
        kept == SelectSeq(text, LAMBDA c : c \in Range(CHARSET))
    IN  IF kept = <<>> THEN kept
        ELSE [i \in 1..Len(kept) |->
                CHARSET[((IndexOf(CHARSET, kept[i]) + direction * shift) % Len(CHARSET)) + 1]]

\* the new index stops at either end of the alphabet instead of wrapping
caesar_cipher_clamped(text, shift, decrypt) ==
    IF text = <<>> THEN text
    ELSE LET direction == IF decrypt THEN -1 ELSE 1
         IN  [i \in 1..Len(text) |->
                IF text[i] \in Range(CHARSET)
                THEN LET moved == IndexOf(CHARSET, text[i]) + direction * shift
                         new_idx == IF moved < 0 THEN 0
                                    ELSE IF moved >= Len(CHARSET) THEN Len(CHARSET) - 1
                                    ELSE moved
                     IN  CHARSET[new_idx + 1]
                ELSE text[i]]

\* the new index is the remainder of the distance moved, whatever its sign
caesar_cipher_abs(text, shift, decrypt) ==
    IF text = <<>> THEN text
    ELSE LET direction == IF decrypt THEN -1 ELSE 1
         IN  [i \in 1..Len(text) |->
                IF text[i] \in Range(CHARSET)
                THEN LET moved == IndexOf(CHARSET, text[i]) + direction * shift
                         new_idx == (IF moved < 0 THEN -moved ELSE moved) % Len(CHARSET)
                     IN  CHARSET[new_idx + 1]
                ELSE text[i]]

caesar_cipher(text, shift, decrypt) ==
    IF text = <<>> THEN text
    ELSE LET direction == IF decrypt THEN -1 ELSE 1
         IN  [i \in 1..Len(text) |->
                IF text[i] \in Range(CHARSET)
                THEN LET idx == IndexOf(CHARSET, text[i])
                         new_idx == (idx + direction * shift) % Len(CHARSET)
                     IN  CHARSET[new_idx + 1]
                ELSE text[i]]

(***************************************************************************)
(* More of str: lower, upper, isdigit, int, in, <                          *)
(***************************************************************************)
\* The tables below are those of the Unicode database of the interpreter
\* (14.0.0), written as ranges of code points.
\* str.lower() of the characters it maps to one other character: every step-th
\* code point of first..last moves by delta, <<first, last, step, delta>>
LowerRuns ==
    {<<65, 90, 1, 32>>, <<192, 214, 1, 32>>, <<216, 222, 1, 32>>, <<256, 302, 2, 1>>,
     <<306, 310, 2, 1>>, <<313, 327, 2, 1>>, <<330, 374, 2, 1>>, <<376, 376, 1, -121>>,
     <<377, 381, 2, 1>>, <<385, 385, 1, 210>>, <<386, 388, 2, 1>>, <<390, 390, 1, 206>>,
     <<391, 391, 1, 1>>, <<393, 394, 1, 205>>, <<395, 395, 1, 1>>, <<398, 398, 1, 79>>,
     <<399, 399, 1, 202>>, <<400, 400, 1, 203>>, <<401, 401, 1, 1>>, <<403, 403, 1, 205>>,
     <<404, 404, 1, 207>>, <<406, 406, 1, 211>>, <<407, 407, 1, 209>>, <<408, 408, 1, 1>>,
     <<412, 412, 1, 211>>, <<413, 413, 1, 213>>, <<415, 415, 1, 214>>, <<416, 420, 2, 1>>,
     <<422, 422, 1, 218>>, <<423, 423, 1, 1>>, <<425, 425, 1, 218>>, <<428, 428, 1, 1>>,
     <<430, 430, 1, 218>>, <<431, 431, 1, 1>>, <<433, 434, 1, 217>>, <<435, 437, 2, 1>>,
     <<439, 439, 1, 219>>, <<440, 440, 1, 1>>, <<444, 444, 1, 1>>, <<452, 452, 1, 2>>,
     <<453, 453, 1, 1>>, <<455, 455, 1, 2>>, <<456, 456, 1, 1>>, <<458, 458, 1, 2>>,
     <<459, 475, 2, 1>>, <<478, 494, 2, 1>>, <<497, 497, 1, 2>>, <<498, 500, 2, 1>>,
     <<502, 502, 1, -97>>, <<503, 503, 1, -56>>, <<504, 542, 2, 1>>, <<544, 544, 1, -130>>,
     <<546, 562, 2, 1>>, <<570, 570, 1, 10795>>, <<571, 571, 1, 1>>, <<573, 573, 1, -163>>,
     <<574, 574, 1, 10792>>, <<577, 577, 1, 1>>, <<579, 579, 1, -195>>, <<580, 580, 1, 69>>,
     <<581, 581, 1, 71>>, <<582, 590, 2, 1>>, <<880, 882, 2, 1>>, <<886, 886, 1, 1>>,
     <<895, 895, 1, 116>>, <<902, 902, 1, 38>>, <<904, 906, 1, 37>>, <<908, 908, 1, 64>>,
     <<910, 911, 1, 63>>, <<913, 929, 1, 32>>, <<931, 939, 1, 32>>, <<975, 975, 1, 8>>,
     <<984, 1006, 2, 1>>, <<1012, 1012, 1, -60>>, <<1015, 1015, 1, 1>>, <<1017, 1017, 1, -7>>,
     <<1018, 1018, 1, 1>>, <<1021, 1023, 1, -130>>, <<1024, 1039, 1, 80>>, <<1040, 1071, 1, 32>>,
     <<1120, 1152, 2, 1>>, <<1162, 1214, 2, 1>>, <<1216, 1216, 1, 15>>, <<1217, 1229, 2, 1>>,
     <<1232, 1326, 2, 1>>, <<1329, 1366, 1, 48>>, <<4256, 4293, 1, 7264>>,
     <<4295, 4295, 1, 7264>>, <<4301, 4301, 1, 7264>>, <<5024, 5103, 1, 38864>>,
     <<5104, 5109, 1, 8>>, <<7312, 7354, 1, -3008>>, <<7357, 7359, 1, -3008>>,
     <<7680, 7828, 2, 1>>, <<7838, 7838, 1, -7615>>, <<7840, 7934, 2, 1>>, <<7944, 7951, 1, -8>>,
     <<7960, 7965, 1, -8>>, <<7976, 7983, 1, -8>>, <<7992, 7999, 1, -8>>, <<8008, 8013, 1, -8>>,
     <<8025, 8031, 2, -8>>, <<8040, 8047, 1, -8>>, <<8072, 8079, 1, -8>>, <<8088, 8095, 1, -8>>,
     <<8104, 8111, 1, -8>>, <<8120, 8121, 1, -8>>, <<8122, 8123, 1, -74>>, <<8124, 8124, 1, -9>>,
     <<8136, 8139, 1, -86>>, <<8140, 8140, 1, -9>>, <<8152, 8153, 1, -8>>,
     <<8154, 8155, 1, -100>>, <<8168, 8169, 1, -8>>, <<8170, 8171, 1, -112>>,
     <<8172, 8172, 1, -7>>, <<8184, 8185, 1, -128>>, <<8186, 8187, 1, -126>>,
     <<8188, 8188, 1, -9>>, <<8486, 8486, 1, -7517>>, <<8490, 8490, 1, -8383>>,
     <<8491, 8491, 1, -8262>>, <<8498, 8498, 1, 28>>, <<8544, 8559, 1, 16>>,
     <<8579, 8579, 1, 1>>, <<9398, 9423, 1, 26>>, <<11264, 11311, 1, 48>>,
     <<11360, 11360, 1, 1>>, <<11362, 11362, 1, -10743>>, <<11363, 11363, 1, -3814>>,
     <<11364, 11364, 1, -10727>>, <<11367, 11371, 2, 1>>, <<11373, 11373, 1, -10780>>,
     <<11374, 11374, 1, -10749>>, <<11375, 11375, 1, -10783>>, <<11376, 11376, 1, -10782>>,
     <<11378, 11378, 1, 1>>, <<11381, 11381, 1, 1>>, <<11390, 11391, 1, -10815>>,
     <<11392, 11490, 2, 1>>, <<11499, 11501, 2, 1>>, <<11506, 11506, 1, 1>>,
     <<42560, 42604, 2, 1>>, <<42624, 42650, 2, 1>>, <<42786, 42798, 2, 1>>,
     <<42802, 42862, 2, 1>>, <<42873, 42875, 2, 1>>, <<42877, 42877, 1, -35332>>,
     <<42878, 42886, 2, 1>>, <<42891, 42891, 1, 1>>, <<42893, 42893, 1, -42280>>,
     <<42896, 42898, 2, 1>>, <<42902, 42920, 2, 1>>, <<42922, 42922, 1, -42308>>,
     <<42923, 42923, 1, -42319>>, <<42924, 42924, 1, -42315>>, <<42925, 42925, 1, -42305>>,
     <<42926, 42926, 1, -42308>>, <<42928, 42928, 1, -42258>>, <<42929, 42929, 1, -42282>>,
     <<42930, 42930, 1, -42261>>, <<42931, 42931, 1, 928>>, <<42932, 42946, 2, 1>>,
     <<42948, 42948, 1, -48>>, <<42949, 42949, 1, -42307>>, <<42950, 42950, 1, -35384>>,
     <<42951, 42953, 2, 1>>, <<42960, 42960, 1, 1>>, <<42966, 42968, 2, 1>>,
     <<42997, 42997, 1, 1>>, <<65313, 65338, 1, 32>>, <<66560, 66599, 1, 40>>,
     <<66736, 66771, 1, 40>>, <<66928, 66938, 1, 39>>, <<66940, 66954, 1, 39>>,
     <<66956, 66962, 1, 39>>, <<66964, 66965, 1, 39>>, <<68736, 68786, 1, 64>>,
     <<71840, 71871, 1, 32>>, <<93760, 93791, 1, 32>>, <<125184, 125217, 1, 34>>}

\* str.upper() of the characters it maps to one other character
UpperRuns ==
    {<<97, 122, 1, -32>>, <<181, 181, 1, 743>>, <<224, 246, 1, -32>>, <<248, 254, 1, -32>>,
     <<255, 255, 1, 121>>, <<257, 303, 2, -1>>, <<305, 305, 1, -232>>, <<307, 311, 2, -1>>,
     <<314, 328, 2, -1>>, <<331, 375, 2, -1>>, <<378, 382, 2, -1>>, <<383, 383, 1, -300>>,
     <<384, 384, 1, 195>>, <<387, 389, 2, -1>>, <<392, 392, 1, -1>>, <<396, 396, 1, -1>>,
     <<402, 402, 1, -1>>, <<405, 405, 1, 97>>, <<409, 409, 1, -1>>, <<410, 410, 1, 163>>,
     <<414, 414, 1, 130>>, <<417, 421, 2, -1>>, <<424, 424, 1, -1>>, <<429, 429, 1, -1>>,
     <<432, 432, 1, -1>>, <<436, 438, 2, -1>>, <<441, 441, 1, -1>>, <<445, 445, 1, -1>>,
     <<447, 447, 1, 56>>, <<453, 453, 1, -1>>, <<454, 454, 1, -2>>, <<456, 456, 1, -1>>,
     <<457, 457, 1, -2>>, <<459, 459, 1, -1>>, <<460, 460, 1, -2>>, <<462, 476, 2, -1>>,
     <<477, 477, 1, -79>>, <<479, 495, 2, -1>>, <<498, 498, 1, -1>>, <<499, 499, 1, -2>>,
     <<501, 501, 1, -1>>, <<505, 543, 2, -1>>, <<547, 563, 2, -1>>, <<572, 572, 1, -1>>,
     <<575, 576, 1, 10815>>, <<578, 578, 1, -1>>, <<583, 591, 2, -1>>, <<592, 592, 1, 10783>>,
     <<593, 593, 1, 10780>>, <<594, 594, 1, 10782>>, <<595, 595, 1, -210>>,
     <<596, 596, 1, -206>>, <<598, 599, 1, -205>>, <<601, 601, 1, -202>>, <<603, 603, 1, -203>>,
     <<604, 604, 1, 42319>>, <<608, 608, 1, -205>>, <<609, 609, 1, 42315>>,
     <<611, 611, 1, -207>>, <<613, 613, 1, 42280>>, <<614, 614, 1, 42308>>,
     <<616, 616, 1, -209>>, <<617, 617, 1, -211>>, <<618, 618, 1, 42308>>,
     <<619, 619, 1, 10743>>, <<620, 620, 1, 42305>>, <<623, 623, 1, -211>>,
     <<625, 625, 1, 10749>>, <<626, 626, 1, -213>>, <<629, 629, 1, -214>>,
     <<637, 637, 1, 10727>>, <<640, 640, 1, -218>>, <<642, 642, 1, 42307>>,
     <<643, 643, 1, -218>>, <<647, 647, 1, 42282>>, <<648, 648, 1, -218>>, <<649, 649, 1, -69>>,
     <<650, 651, 1, -217>>, <<652, 652, 1, -71>>, <<658, 658, 1, -219>>, <<669, 669, 1, 42261>>,
     <<670, 670, 1, 42258>>, <<837, 837, 1, 84>>, <<881, 883, 2, -1>>, <<887, 887, 1, -1>>,
     <<891, 893, 1, 130>>, <<940, 940, 1, -38>>, <<941, 943, 1, -37>>, <<945, 961, 1, -32>>,
     <<962, 962, 1, -31>>, <<963, 971, 1, -32>>, <<972, 972, 1, -64>>, <<973, 974, 1, -63>>,
     <<976, 976, 1, -62>>, <<977, 977, 1, -57>>, <<981, 981, 1, -47>>, <<982, 982, 1, -54>>,
     <<983, 983, 1, -8>>, <<985, 1007, 2, -1>>, <<1008, 1008, 1, -86>>, <<1009, 1009, 1, -80>>,
     <<1010, 1010, 1, 7>>, <<1011, 1011, 1, -116>>, <<1013, 1013, 1, -96>>,
     <<1016, 1016, 1, -1>>, <<1019, 1019, 1, -1>>, <<1072, 1103, 1, -32>>,
     <<1104, 1119, 1, -80>>, <<1121, 1153, 2, -1>>, <<1163, 1215, 2, -1>>, <<1218, 1230, 2, -1>>,
     <<1231, 1231, 1, -15>>, <<1233, 1327, 2, -1>>, <<1377, 1414, 1, -48>>,
     <<4304, 4346, 1, 3008>>, <<4349, 4351, 1, 3008>>, <<5112, 5117, 1, -8>>,
     <<7296, 7296, 1, -6254>>, <<7297, 7297, 1, -6253>>, <<7298, 7298, 1, -6244>>,
     <<7299, 7300, 1, -6242>>, <<7301, 7301, 1, -6243>>, <<7302, 7302, 1, -6236>>,
     <<7303, 7303, 1, -6181>>, <<7304, 7304, 1, 35266>>, <<7545, 7545, 1, 35332>>,
     <<7549, 7549, 1, 3814>>, <<7566, 7566, 1, 35384>>, <<7681, 7829, 2, -1>>,
     <<7835, 7835, 1, -59>>, <<7841, 7935, 2, -1>>, <<7936, 7943, 1, 8>>, <<7952, 7957, 1, 8>>,
     <<7968, 7975, 1, 8>>, <<7984, 7991, 1, 8>>, <<8000, 8005, 1, 8>>, <<8017, 8023, 2, 8>>,
     <<8032, 8039, 1, 8>>, <<8048, 8049, 1, 74>>, <<8050, 8053, 1, 86>>, <<8054, 8055, 1, 100>>,
     <<8056, 8057, 1, 128>>, <<8058, 8059, 1, 112>>, <<8060, 8061, 1, 126>>,
     <<8112, 8113, 1, 8>>, <<8126, 8126, 1, -7205>>, <<8144, 8145, 1, 8>>, <<8160, 8161, 1, 8>>,
     <<8165, 8165, 1, 7>>, <<8526, 8526, 1, -28>>, <<8560, 8575, 1, -16>>, <<8580, 8580, 1, -1>>,
     <<9424, 9449, 1, -26>>, <<11312, 11359, 1, -48>>, <<11361, 11361, 1, -1>>,
     <<11365, 11365, 1, -10795>>, <<11366, 11366, 1, -10792>>, <<11368, 11372, 2, -1>>,
     <<11379, 11379, 1, -1>>, <<11382, 11382, 1, -1>>, <<11393, 11491, 2, -1>>,
     <<11500, 11502, 2, -1>>, <<11507, 11507, 1, -1>>, <<11520, 11557, 1, -7264>>,
     <<11559, 11559, 1, -7264>>, <<11565, 11565, 1, -7264>>, <<42561, 42605, 2, -1>>,
     <<42625, 42651, 2, -1>>, <<42787, 42799, 2, -1>>, <<42803, 42863, 2, -1>>,
     <<42874, 42876, 2, -1>>, <<42879, 42887, 2, -1>>, <<42892, 42892, 1, -1>>,
     <<42897, 42899, 2, -1>>, <<42900, 42900, 1, 48>>, <<42903, 42921, 2, -1>>,
     <<42933, 42947, 2, -1>>, <<42952, 42954, 2, -1>>, <<42961, 42961, 1, -1>>,
     <<42967, 42969, 2, -1>>, <<42998, 42998, 1, -1>>, <<43859, 43859, 1, -928>>,
     <<43888, 43967, 1, -38864>>, <<65345, 65370, 1, -32>>, <<66600, 66639, 1, -40>>,
     <<66776, 66811, 1, -40>>, <<66967, 66977, 1, -39>>, <<66979, 66993, 1, -39>>,
     <<66995, 67001, 1, -39>>, <<67003, 67004, 1, -39>>, <<68800, 68850, 1, -64>>,
     <<71872, 71903, 1, -32>>, <<93792, 93823, 1, -32>>, <<125218, 125251, 1, -34>>}

\* str.upper() of the characters it maps to several: <<code point, string>>
UpperFull ==
    {<<223, <<83, 83>>>>, <<329, <<700, 78>>>>, <<496, <<74, 780>>>>, <<912, <<921, 776, 769>>>>,
     <<944, <<933, 776, 769>>>>, <<1415, <<1333, 1362>>>>, <<7830, <<72, 817>>>>,
     <<7831, <<84, 776>>>>, <<7832, <<87, 778>>>>, <<7833, <<89, 778>>>>, <<7834, <<65, 702>>>>,
     <<8016, <<933, 787>>>>, <<8018, <<933, 787, 768>>>>, <<8020, <<933, 787, 769>>>>,
     <<8022, <<933, 787, 834>>>>, <<8064, <<7944, 921>>>>, <<8065, <<7945, 921>>>>,
     <<8066, <<7946, 921>>>>, <<8067, <<7947, 921>>>>, <<8068, <<7948, 921>>>>,
     <<8069, <<7949, 921>>>>, <<8070, <<7950, 921>>>>, <<8071, <<7951, 921>>>>,
     <<8072, <<7944, 921>>>>, <<8073, <<7945, 921>>>>, <<8074, <<7946, 921>>>>,
     <<8075, <<7947, 921>>>>, <<8076, <<7948, 921>>>>, <<8077, <<7949, 921>>>>,
     <<8078, <<7950, 921>>>>, <<8079, <<7951, 921>>>>, <<8080, <<7976, 921>>>>,
     <<8081, <<7977, 921>>>>, <<8082, <<7978, 921>>>>, <<8083, <<7979, 921>>>>,
     <<8084, <<7980, 921>>>>, <<8085, <<7981, 921>>>>, <<8086, <<7982, 921>>>>,
     <<8087, <<7983, 921>>>>, <<8088, <<7976, 921>>>>, <<8089, <<7977, 921>>>>,
     <<8090, <<7978, 921>>>>, <<8091, <<7979, 921>>>>, <<8092, <<7980, 921>>>>,
     <<8093, <<7981, 921>>>>, <<8094, <<7982, 921>>>>, <<8095, <<7983, 921>>>>,
     <<8096, <<8040, 921>>>>, <<8097, <<8041, 921>>>>, <<8098, <<8042, 921>>>>,
     <<8099, <<8043, 921>>>>, <<8100, <<8044, 921>>>>, <<8101, <<8045, 921>>>>,
     <<8102, <<8046, 921>>>>, <<8103, <<8047, 921>>>>, <<8104, <<8040, 921>>>>,
     <<8105, <<8041, 921>>>>, <<8106, <<8042, 921>>>>, <<8107, <<8043, 921>>>>,
     <<8108, <<8044, 921>>>>, <<8109, <<8045, 921>>>>, <<8110, <<8046, 921>>>>,
     <<8111, <<8047, 921>>>>, <<8114, <<8122, 921>>>>, <<8115, <<913, 921>>>>,
     <<8116, <<902, 921>>>>, <<8118, <<913, 834>>>>, <<8119, <<913, 834, 921>>>>,
     <<8124, <<913, 921>>>>, <<8130, <<8138, 921>>>>, <<8131, <<919, 921>>>>,
     <<8132, <<905, 921>>>>, <<8134, <<919, 834>>>>, <<8135, <<919, 834, 921>>>>,
     <<8140, <<919, 921>>>>, <<8146, <<921, 776, 768>>>>, <<8147, <<921, 776, 769>>>>,
     <<8150, <<921, 834>>>>, <<8151, <<921, 776, 834>>>>, <<8162, <<933, 776, 768>>>>,
     <<8163, <<933, 776, 769>>>>, <<8164, <<929, 787>>>>, <<8166, <<933, 834>>>>,
     <<8167, <<933, 776, 834>>>>, <<8178, <<8186, 921>>>>, <<8179, <<937, 921>>>>,
     <<8180, <<911, 921>>>>, <<8182, <<937, 834>>>>, <<8183, <<937, 834, 921>>>>,
     <<8188, <<937, 921>>>>, <<64256, <<70, 70>>>>, <<64257, <<70, 73>>>>, <<64258, <<70, 76>>>>,
     <<64259, <<70, 70, 73>>>>, <<64260, <<70, 70, 76>>>>, <<64261, <<83, 84>>>>,
     <<64262, <<83, 84>>>>, <<64275, <<1348, 1350>>>>, <<64276, <<1348, 1333>>>>,
     <<64277, <<1348, 1339>>>>, <<64278, <<1358, 1350>>>>, <<64279, <<1348, 1341>>>>}

\* the characters str.lower() looks through around a capital sigma
\* (Case_Ignorable): <<first, last>> code points
CaseIgnorableRanges ==
    {<<39, 39>>, <<46, 46>>, <<58, 58>>, <<94, 94>>, <<96, 96>>, <<168, 168>>, <<173, 173>>,
     <<175, 175>>, <<180, 180>>, <<183, 184>>, <<688, 879>>, <<884, 885>>, <<890, 890>>,
     <<900, 901>>, <<903, 903>>, <<1155, 1161>>, <<1369, 1369>>, <<1375, 1375>>, <<1425, 1469>>,
     <<1471, 1471>>, <<1473, 1474>>, <<1476, 1477>>, <<1479, 1479>>, <<1524, 1524>>,
     <<1536, 1541>>, <<1552, 1562>>, <<1564, 1564>>, <<1600, 1600>>, <<1611, 1631>>,
     <<1648, 1648>>, <<1750, 1757>>, <<1759, 1768>>, <<1770, 1773>>, <<1807, 1807>>,
     <<1809, 1809>>, <<1840, 1866>>, <<1958, 1968>>, <<2027, 2037>>, <<2042, 2042>>,
     <<2045, 2045>>, <<2070, 2093>>, <<2137, 2139>>, <<2184, 2184>>, <<2192, 2193>>,
     <<2200, 2207>>, <<2249, 2306>>, <<2362, 2362>>, <<2364, 2364>>, <<2369, 2376>>,
     <<2381, 2381>>, <<2385, 2391>>, <<2402, 2403>>, <<2417, 2417>>, <<2433, 2433>>,
     <<2492, 2492>>, <<2497, 2500>>, <<2509, 2509>>, <<2530, 2531>>, <<2558, 2558>>,
     <<2561, 2562>>, <<2620, 2620>>, <<2625, 2626>>, <<2631, 2632>>, <<2635, 2637>>,
     <<2641, 2641>>, <<2672, 2673>>, <<2677, 2677>>, <<2689, 2690>>, <<2748, 2748>>,
     <<2753, 2757>>, <<2759, 2760>>, <<2765, 2765>>, <<2786, 2787>>, <<2810, 2815>>,
     <<2817, 2817>>, <<2876, 2876>>, <<2879, 2879>>, <<2881, 2884>>, <<2893, 2893>>,
     <<2901, 2902>>, <<2914, 2915>>, <<2946, 2946>>, <<3008, 3008>>, <<3021, 3021>>,
     <<3072, 3072>>, <<3076, 3076>>, <<3132, 3132>>, <<3134, 3136>>, <<3142, 3144>>,
     <<3146, 3149>>, <<3157, 3158>>, <<3170, 3171>>, <<3201, 3201>>, <<3260, 3260>>,
     <<3263, 3263>>, <<3270, 3270>>, <<3276, 3277>>, <<3298, 3299>>, <<3328, 3329>>,
     <<3387, 3388>>, <<3393, 3396>>, <<3405, 3405>>, <<3426, 3427>>, <<3457, 3457>>,
     <<3530, 3530>>, <<3538, 3540>>, <<3542, 3542>>, <<3633, 3633>>, <<3636, 3642>>,
     <<3654, 3662>>, <<3761, 3761>>, <<3764, 3772>>, <<3782, 3782>>, <<3784, 3789>>,
     <<3864, 3865>>, <<3893, 3893>>, <<3895, 3895>>, <<3897, 3897>>, <<3953, 3966>>,
     <<3968, 3972>>, <<3974, 3975>>, <<3981, 3991>>, <<3993, 4028>>, <<4038, 4038>>,
     <<4141, 4144>>, <<4146, 4151>>, <<4153, 4154>>, <<4157, 4158>>, <<4184, 4185>>,
     <<4190, 4192>>, <<4209, 4212>>, <<4226, 4226>>, <<4229, 4230>>, <<4237, 4237>>,
     <<4253, 4253>>, <<4348, 4348>>, <<4957, 4959>>, <<5906, 5908>>, <<5938, 5939>>,
     <<5970, 5971>>, <<6002, 6003>>, <<6068, 6069>>, <<6071, 6077>>, <<6086, 6086>>,
     <<6089, 6099>>, <<6103, 6103>>, <<6109, 6109>>, <<6155, 6159>>, <<6211, 6211>>,
     <<6277, 6278>>, <<6313, 6313>>, <<6432, 6434>>, <<6439, 6440>>, <<6450, 6450>>,
     <<6457, 6459>>, <<6679, 6680>>, <<6683, 6683>>, <<6742, 6742>>, <<6744, 6750>>,
     <<6752, 6752>>, <<6754, 6754>>, <<6757, 6764>>, <<6771, 6780>>, <<6783, 6783>>,
     <<6823, 6823>>, <<6832, 6862>>, <<6912, 6915>>, <<6964, 6964>>, <<6966, 6970>>,
     <<6972, 6972>>, <<6978, 6978>>, <<7019, 7027>>, <<7040, 7041>>, <<7074, 7077>>,
     <<7080, 7081>>, <<7083, 7085>>, <<7142, 7142>>, <<7144, 7145>>, <<7149, 7149>>,
     <<7151, 7153>>, <<7212, 7219>>, <<7222, 7223>>, <<7288, 7293>>, <<7376, 7378>>,
     <<7380, 7392>>, <<7394, 7400>>, <<7405, 7405>>, <<7412, 7412>>, <<7416, 7417>>,
     <<7468, 7530>>, <<7544, 7544>>, <<7579, 7679>>, <<8125, 8125>>, <<8127, 8129>>,
     <<8141, 8143>>, <<8157, 8159>>, <<8173, 8175>>, <<8189, 8190>>, <<8203, 8207>>,
     <<8216, 8217>>, <<8228, 8228>>, <<8231, 8231>>, <<8234, 8238>>, <<8288, 8292>>,
     <<8294, 8303>>, <<8305, 8305>>, <<8319, 8319>>, <<8336, 8348>>, <<8400, 8432>>,
     <<11388, 11389>>, <<11503, 11505>>, <<11631, 11631>>, <<11647, 11647>>, <<11744, 11775>>,
     <<11823, 11823>>, <<12293, 12293>>, <<12330, 12333>>, <<12337, 12341>>, <<12347, 12347>>,
     <<12441, 12446>>, <<12540, 12542>>, <<40981, 40981>>, <<42232, 42237>>, <<42508, 42508>>,
     <<42607, 42610>>, <<42612, 42621>>, <<42623, 42623>>, <<42652, 42655>>, <<42736, 42737>>,
     <<42752, 42785>>, <<42864, 42864>>, <<42888, 42890>>, <<42994, 42996>>, <<43000, 43001>>,
     <<43010, 43010>>, <<43014, 43014>>, <<43019, 43019>>, <<43045, 43046>>, <<43052, 43052>>,
     <<43204, 43205>>, <<43232, 43249>>, <<43263, 43263>>, <<43302, 43309>>, <<43335, 43345>>,
     <<43392, 43394>>, <<43443, 43443>>, <<43446, 43449>>, <<43452, 43453>>, <<43471, 43471>>,
     <<43493, 43494>>, <<43561, 43566>>, <<43569, 43570>>, <<43573, 43574>>, <<43587, 43587>>,
     <<43596, 43596>>, <<43632, 43632>>, <<43644, 43644>>, <<43696, 43696>>, <<43698, 43700>>,
     <<43703, 43704>>, <<43710, 43711>>, <<43713, 43713>>, <<43741, 43741>>, <<43756, 43757>>,
     <<43763, 43764>>, <<43766, 43766>>, <<43867, 43871>>, <<43881, 43883>>, <<44005, 44005>>,
     <<44008, 44008>>, <<44013, 44013>>, <<64286, 64286>>, <<64434, 64450>>, <<65024, 65039>>,
     <<65043, 65043>>, <<65056, 65071>>, <<65106, 65106>>, <<65109, 65109>>, <<65279, 65279>>,
     <<65287, 65287>>, <<65294, 65294>>, <<65306, 65306>>, <<65342, 65342>>, <<65344, 65344>>,
     <<65392, 65392>>, <<65438, 65439>>, <<65507, 65507>>, <<65529, 65531>>, <<66045, 66045>>,
     <<66272, 66272>>, <<66422, 66426>>, <<67456, 67461>>, <<67463, 67504>>, <<67506, 67514>>,
     <<68097, 68099>>, <<68101, 68102>>, <<68108, 68111>>, <<68152, 68154>>, <<68159, 68159>>,
     <<68325, 68326>>, <<68900, 68903>>, <<69291, 69292>>, <<69446, 69456>>, <<69506, 69509>>,
     <<69633, 69633>>, <<69688, 69702>>, <<69744, 69744>>, <<69747, 69748>>, <<69759, 69761>>,
     <<69811, 69814>>, <<69817, 69818>>, <<69821, 69821>>, <<69826, 69826>>, <<69837, 69837>>,
     <<69888, 69890>>, <<69927, 69931>>, <<69933, 69940>>, <<70003, 70003>>, <<70016, 70017>>,
     <<70070, 70078>>, <<70089, 70092>>, <<70095, 70095>>, <<70191, 70193>>, <<70196, 70196>>,
     <<70198, 70199>>, <<70206, 70206>>, <<70367, 70367>>, <<70371, 70378>>, <<70400, 70401>>,
     <<70459, 70460>>, <<70464, 70464>>, <<70502, 70508>>, <<70512, 70516>>, <<70712, 70719>>,
     <<70722, 70724>>, <<70726, 70726>>, <<70750, 70750>>, <<70835, 70840>>, <<70842, 70842>>,
     <<70847, 70848>>, <<70850, 70851>>, <<71090, 71093>>, <<71100, 71101>>, <<71103, 71104>>,
     <<71132, 71133>>, <<71219, 71226>>, <<71229, 71229>>, <<71231, 71232>>, <<71339, 71339>>,
     <<71341, 71341>>, <<71344, 71349>>, <<71351, 71351>>, <<71453, 71455>>, <<71458, 71461>>,
     <<71463, 71467>>, <<71727, 71735>>, <<71737, 71738>>, <<71995, 71996>>, <<71998, 71998>>,
     <<72003, 72003>>, <<72148, 72151>>, <<72154, 72155>>, <<72160, 72160>>, <<72193, 72202>>,
     <<72243, 72248>>, <<72251, 72254>>, <<72263, 72263>>, <<72273, 72278>>, <<72281, 72283>>,
     <<72330, 72342>>, <<72344, 72345>>, <<72752, 72758>>, <<72760, 72765>>, <<72767, 72767>>,
     <<72850, 72871>>, <<72874, 72880>>, <<72882, 72883>>, <<72885, 72886>>, <<73009, 73014>>,
     <<73018, 73018>>, <<73020, 73021>>, <<73023, 73029>>, <<73031, 73031>>, <<73104, 73105>>,
     <<73109, 73109>>, <<73111, 73111>>, <<73459, 73460>>, <<78896, 78904>>, <<92912, 92916>>,
     <<92976, 92982>>, <<92992, 92995>>, <<94031, 94031>>, <<94095, 94111>>, <<94176, 94177>>,
     <<94179, 94180>>, <<110576, 110579>>, <<110581, 110587>>, <<110589, 110590>>,
     <<113821, 113822>>, <<113824, 113827>>, <<118528, 118573>>, <<118576, 118598>>,
     <<119143, 119145>>, <<119155, 119170>>, <<119173, 119179>>, <<119210, 119213>>,
     <<119362, 119364>>, <<121344, 121398>>, <<121403, 121452>>, <<121461, 121461>>,
     <<121476, 121476>>, <<121499, 121503>>, <<121505, 121519>>, <<122880, 122886>>,
     <<122888, 122904>>, <<122907, 122913>>, <<122915, 122916>>, <<122918, 122922>>,
     <<123184, 123197>>, <<123566, 123566>>, <<123628, 123631>>, <<125136, 125142>>,
     <<125252, 125259>>, <<127995, 127999>>, <<917505, 917505>>, <<917536, 917631>>,
     <<917760, 917999>>}

\* the characters that have a case (Cased): <<first, last>> code points
CasedRanges ==
    {<<65, 90>>, <<97, 122>>, <<170, 170>>, <<181, 181>>, <<186, 186>>, <<192, 214>>,
     <<216, 246>>, <<248, 442>>, <<444, 447>>, <<452, 659>>, <<661, 696>>, <<704, 705>>,
     <<736, 740>>, <<837, 837>>, <<880, 883>>, <<886, 887>>, <<890, 893>>, <<895, 895>>,
     <<902, 902>>, <<904, 906>>, <<908, 908>>, <<910, 929>>, <<931, 1013>>, <<1015, 1153>>,
     <<1162, 1327>>, <<1329, 1366>>, <<1376, 1416>>, <<4256, 4293>>, <<4295, 4295>>,
     <<4301, 4301>>, <<4304, 4346>>, <<4349, 4351>>, <<5024, 5109>>, <<5112, 5117>>,
     <<7296, 7304>>, <<7312, 7354>>, <<7357, 7359>>, <<7424, 7615>>, <<7680, 7957>>,
     <<7960, 7965>>, <<7968, 8005>>, <<8008, 8013>>, <<8016, 8023>>, <<8025, 8025>>,
     <<8027, 8027>>, <<8029, 8029>>, <<8031, 8061>>, <<8064, 8116>>, <<8118, 8124>>,
     <<8126, 8126>>, <<8130, 8132>>, <<8134, 8140>>, <<8144, 8147>>, <<8150, 8155>>,
     <<8160, 8172>>, <<8178, 8180>>, <<8182, 8188>>, <<8305, 8305>>, <<8319, 8319>>,
     <<8336, 8348>>, <<8450, 8450>>, <<8455, 8455>>, <<8458, 8467>>, <<8469, 8469>>,
     <<8473, 8477>>, <<8484, 8484>>, <<8486, 8486>>, <<8488, 8488>>, <<8490, 8493>>,
     <<8495, 8500>>, <<8505, 8505>>, <<8508, 8511>>, <<8517, 8521>>, <<8526, 8526>>,
     <<8544, 8575>>, <<8579, 8580>>, <<9398, 9449>>, <<11264, 11492>>, <<11499, 11502>>,
     <<11506, 11507>>, <<11520, 11557>>, <<11559, 11559>>, <<11565, 11565>>, <<42560, 42605>>,
     <<42624, 42653>>, <<42786, 42887>>, <<42891, 42894>>, <<42896, 42954>>, <<42960, 42961>>,
     <<42963, 42963>>, <<42965, 42969>>, <<42997, 42998>>, <<43000, 43002>>, <<43824, 43866>>,
     <<43868, 43880>>, <<43888, 43967>>, <<64256, 64262>>, <<64275, 64279>>, <<65313, 65338>>,
     <<65345, 65370>>, <<66560, 66639>>, <<66736, 66771>>, <<66776, 66811>>, <<66928, 66938>>,
     <<66940, 66954>>, <<66956, 66962>>, <<66964, 66965>>, <<66967, 66977>>, <<66979, 66993>>,
     <<66995, 67001>>, <<67003, 67004>>, <<67456, 67456>>, <<67459, 67461>>, <<67463, 67504>>,
     <<67506, 67514>>, <<68736, 68786>>, <<68800, 68850>>, <<71840, 71903>>, <<93760, 93823>>,
     <<119808, 119892>>, <<119894, 119964>>, <<119966, 119967>>, <<119970, 119970>>,
     <<119973, 119974>>, <<119977, 119980>>, <<119982, 119993>>, <<119995, 119995>>,
     <<119997, 120003>>, <<120005, 120069>>, <<120071, 120074>>, <<120077, 120084>>,
     <<120086, 120092>>, <<120094, 120121>>, <<120123, 120126>>, <<120128, 120132>>,
     <<120134, 120134>>, <<120138, 120144>>, <<120146, 120485>>, <<120488, 120512>>,
     <<120514, 120538>>, <<120540, 120570>>, <<120572, 120596>>, <<120598, 120628>>,
     <<120630, 120654>>, <<120656, 120686>>, <<120688, 120712>>, <<120714, 120744>>,
     <<120746, 120770>>, <<120772, 120779>>, <<122624, 122633>>, <<122635, 122654>>,
     <<125184, 125251>>, <<127280, 127305>>, <<127312, 127337>>, <<127344, 127369>>}

\* str.isdigit() of one character: <<first, last>> code points
DigitRanges ==
    {<<48, 57>>, <<178, 179>>, <<185, 185>>, <<1632, 1641>>, <<1776, 1785>>, <<1984, 1993>>,
     <<2406, 2415>>, <<2534, 2543>>, <<2662, 2671>>, <<2790, 2799>>, <<2918, 2927>>,
     <<3046, 3055>>, <<3174, 3183>>, <<3302, 3311>>, <<3430, 3439>>, <<3558, 3567>>,
     <<3664, 3673>>, <<3792, 3801>>, <<3872, 3881>>, <<4160, 4169>>, <<4240, 4249>>,
     <<4969, 4977>>, <<6112, 6121>>, <<6160, 6169>>, <<6470, 6479>>, <<6608, 6618>>,
     <<6784, 6793>>, <<6800, 6809>>, <<6992, 7001>>, <<7088, 7097>>, <<7232, 7241>>,
     <<7248, 7257>>, <<8304, 8304>>, <<8308, 8313>>, <<8320, 8329>>, <<9312, 9320>>,
     <<9332, 9340>>, <<9352, 9360>>, <<9450, 9450>>, <<9461, 9469>>, <<9471, 9471>>,
     <<10102, 10110>>, <<10112, 10120>>, <<10122, 10130>>, <<42528, 42537>>, <<43216, 43225>>,
     <<43264, 43273>>, <<43472, 43481>>, <<43504, 43513>>, <<43600, 43609>>, <<44016, 44025>>,
     <<65296, 65305>>, <<66720, 66729>>, <<68160, 68163>>, <<68912, 68921>>, <<69216, 69224>>,
     <<69714, 69722>>, <<69734, 69743>>, <<69872, 69881>>, <<69942, 69951>>, <<70096, 70105>>,
     <<70384, 70393>>, <<70736, 70745>>, <<70864, 70873>>, <<71248, 71257>>, <<71360, 71369>>,
     <<71472, 71481>>, <<71904, 71913>>, <<72016, 72025>>, <<72784, 72793>>, <<73040, 73049>>,
     <<73120, 73129>>, <<92768, 92777>>, <<92864, 92873>>, <<93008, 93017>>, <<120782, 120831>>,
     <<123200, 123209>>, <<123632, 123641>>, <<125264, 125273>>, <<127232, 127242>>,
     <<130032, 130041>>}

\* the decimal digits int() reads: the digit 0 of each script, followed by its 1..9
DecimalZeros ==
    {48, 1632, 1776, 1984, 2406, 2534, 2662, 2790, 2918, 3046, 3174, 3302, 3430, 3558, 3664,
     3792, 3872, 4160, 4240, 6112, 6160, 6470, 6608, 6784, 6800, 6992, 7088, 7232, 7248, 42528,
     43216, 43264, 43472, 43504, 43600, 44016, 65296, 66720, 68912, 69734, 69872, 69942, 70096,
     70384, 70736, 70864, 71248, 71360, 71472, 71904, 72016, 72784, 73040, 73120, 92768, 92864,
     93008, 120782, 120792, 120802, 120812, 120822, 123200, 123632, 125264, 130032}

LowerRunsAscii == Ascii(LowerRuns)
UpperRunsAscii == Ascii(UpperRuns)
UpperFullAscii == Ascii(UpperFull)
CaseIgnorableRangesAscii == Ascii(CaseIgnorableRanges)
CasedRangesAscii == Ascii(CasedRanges)
DigitRangesAscii == Ascii(DigitRanges)
DecimalZerosAscii == {z \in DecimalZeros : z < 128}

\* how far the run that holds c moves it, 0 when no run holds it
CaseDelta(c, case_runs) ==
    LET holds(r) == r[1] <= c /\ c <= r[2] /\ (c - r[1]) % r[3] = 0
    IN  IF \E r \in case_runs : holds(r) THEN (CHOOSE r \in case_runs : holds(r))[4] ELSE 0

\* str.lower() and str.upper() of a string of one character c: a string, of
\* two characters for U+0130, of up to three for the characters of UpperFull
LowerChar(c) ==
    IF c = 304 THEN <<105, 775>>
    ELSE <<c + CaseDelta(c, Near(c, LowerRuns, LowerRunsAscii))>>

UpperChar(c) ==
    LET full == Near(c, UpperFull, UpperFullAscii)
    IN  IF \E u \in full : u[1] = c THEN (CHOOSE u \in full : u[1] = c)[2]
        ELSE <<c + CaseDelta(c, Near(c, UpperRuns, UpperRunsAscii))>>

\* ''.join(strings)
RECURSIVE Concat(_)
Concat(strings) == IF strings = <<>> THEN <<>> ELSE Head(strings) \o Concat(Tail(strings))

\* the capital sigma s[i] ends a word: the nearest character before it that
\* is not case-ignorable has a case, and the nearest after it has none
FinalSigma(s, i) ==
    LET ignorable(c) == InRanges(c, Near(c, CaseIgnorableRanges, CaseIgnorableRangesAscii))
        cased(c) == InRanges(c, Near(c, CasedRanges, CasedRangesAscii))
        before == {j \in 1..(i - 1) : ~ignorable(s[j])}
        after == {j \in (i + 1)..Len(s) : ~ignorable(s[j])}
    IN  /\ before # {}
        /\ cased(s[CHOOSE j \in before : \A k \in before : k <= j])
        /\ \/ after = {}
           \/ ~cased(s[CHOOSE j \in after : \A k \in after : j <= k])

\* str.lower(): character by character, a capital sigma by its place
Lower(s) ==
    Concat([i \in 1..Len(s) |->
                IF s[i] = 931 THEN <<IF FinalSigma(s, i) THEN 962 ELSE 963>>
                ELSE LowerChar(s[i])])

\* str.upper()
Upper(s) == Concat([i \in 1..Len(s) |-> UpperChar(s[i])])

\* str.isdigit(): not empty, and every character a digit of some script or a
\* digit-like character (superscripts, circled digits)
IsDigit(s) ==
    /\ s # <<>>
    /\ \A i \in 1..Len(s) : InRanges(s[i], Near(s[i], DigitRanges, DigitRangesAscii))

\* the value of the decimal digit c, -1 when c is none
DecimalValue(c) ==
    LET zeros == Near(c, DecimalZeros, DecimalZerosAscii)
    IN  IF \E z \in zeros : z <= c /\ c <= z + 9
        THEN c - (CHOOSE z \in zeros : z <= c /\ c <= z + 9)
        ELSE -1

\* the white space int() skips at either end: that of str.strip() but for the
\* separators U+001C..U+001F
IntSpace(c) == IsSpace(c) /\ c \notin 28..31

\* what int(s) reads after the white space and the sign
IntBody(s) ==
    LET t == StripOf(s, [i \in 1..Len(s) |-> IntSpace(s[i])])
    IN  IF t # <<>> /\ t[1] \in {43, 45} THEN Tail(t) ELSE t

IntDigits(s) == SelectSeq(IntBody(s), LAMBDA c : c # 95)

\* int(s) raises ValueError: s is not decimal digits with single underscores
\* between them, or has more than 4300 digits (the interpreter's limit)
IntRaises(s) ==
    LET b == IntBody(s)
    IN  \/ b = <<>>
        \/ \E i \in 1..Len(b) : b[i] # 95 /\ DecimalValue(b[i]) < 0
        \/ b[1] = 95 \/ b[Len(b)] = 95
        \/ \E i \in 1..(Len(b) - 1) : b[i] = 95 /\ b[i + 1] = 95
        \/ Len(IntDigits(s)) > 4300

RECURSIVE DecimalNumber(_)
DecimalNumber(ds) ==
    IF ds = <<>> THEN 0
    ELSE 10 * DecimalNumber(SubSeq(ds, 1, Len(ds) - 1)) + DecimalValue(ds[Len(ds)])

\* int(s), when it does not raise
ParseInt(s) ==
    LET t == StripOf(s, [i \in 1..Len(s) |-> IntSpace(s[i])])
    IN  (IF t # <<>> /\ t[1] = 45 THEN -1 ELSE 1) * DecimalNumber(IntDigits(s))

\* needle in hay, for two strings
Contains(hay, needle) ==
    \E i \in 0..(Len(hay) - Len(needle)) : SubSeq(hay, i + 1, i + Len(needle)) = needle

\* a < b for two strings: by code point, a proper prefix first
StrLess(a, b) ==
    \E i \in 1..(Len(b)) :
        /\ i <= Len(a) + 1
        /\ \A j \in 1..(i - 1) : a[j] = b[j]
        /\ (i = Len(a) + 1 \/ a[i] < b[i])

\* sorted(S) for a set of distinct strings
RECURSIVE Sorted(_)
Sorted(S) ==
    IF S = {} THEN <<>>
    ELSE LET m == CHOOSE x \in S : \A y \in S \ {x} : StrLess(x, y)
         IN  <<m>> \o Sorted(S \ {m})

(***************************************************************************)
(* users.json: load_users, save_users                                      *)
(***************************************************************************)
EmptyStore == <<>>

\* users.json holds either a JSON text (json is TRUE and doc is the object it
\* denotes, as its members) or a text that is not JSON (kept in text)
NoUsersFile == [exists |-> FALSE, json |-> FALSE, doc |-> {}, text |-> <<>>]

\* a users.json of no bytes, and one holding "{ invalid json ]"
EmptyUsersFile == [exists |-> TRUE, json |-> FALSE, doc |-> {}, text |-> <<>>]
BrokenUsersFile ==
    [exists |-> TRUE, json |-> FALSE, doc |-> {},
     text |-> <<123, 32, 105, 110, 118, 97, 108, 105, 100, 32, 106, 115, 111, 110, 32, 93>>]

\* json.dump of the dict of accounts: an object is written as its members
json_dump(us) ==
    {<<k, [master_password |-> us[k].master_password,
           passwords |-> {<<r, us[k].passwords[r]>> : r \in DOMAIN us[k].passwords},
           custom_categories |-> us[k].custom_categories]>> : k \in DOMAIN us}

\* json.load: a dict from the members of each object
json_object(members) ==
    [k \in {m[1] : m \in members} |-> (CHOOSE m \in members : m[1] = k)[2]]

json_load(doc) ==
    LET top == json_object(doc)
    IN  [k \in DOMAIN top |->
            [master_password |-> top[k].master_password,
             passwords |-> json_object(top[k].passwords),
             custom_categories |-> top[k].custom_categories]]

load_users_raises_never(f) == FALSE

\* json.load(f) raises JSONDecodeError: the file is there and is not JSON
load_users_raises(f) == f.exists /\ ~f.json

\* what load_users() returns when it returns
load_users(f) == IF ~f.exists THEN EmptyStore ELSE json_load(f.doc)

\* str.encode("utf-8") of s raises UnicodeEncodeError: s holds a surrogate
\* code point (what input() returns for a byte it cannot decode when stdin
\* escapes surrogates)
encode_raises(s) == \E i \in 1..Len(s) : s[i] \in 55296..57343

\* the strings json.dump writes for the dict of accounts
strings_of(us) ==
    DOMAIN us
        \cup {us[k].master_password : k \in DOMAIN us}
        \cup UNION {DOMAIN us[k].passwords : k \in DOMAIN us}
        \cup UNION {UNION {{us[k].passwords[r].encrypted, us[k].passwords[r].category} :
                                r \in DOMAIN us[k].passwords} : k \in DOMAIN us}
        \cup UNION {Range(us[k].custom_categories) : k \in DOMAIN us}

\* save_users(users) raises UnicodeEncodeError, out of f.write
save_users_raises(us) == \E str \in strings_of(us) : encode_raises(str)

\* users.json as a save_users that raised leaves it: open(..., "w") has
\* emptied it and json.dump has written the dump up to the string that cannot
\* be encoded, which is not JSON.  text is how every such file begins, "{",
\* a new line and two spaces; what follows depends on the order of the dict
\* and is not kept, nothing reads it.
CutUsersFile == [exists |-> TRUE, json |-> FALSE, doc |-> {}, text |-> <<123, 10, 32, 32>>]

\* users.json after save_users(us), whether it returned or raised
save_users(us) ==
    IF save_users_raises(us) THEN CutUsersFile
    ELSE [exists |-> TRUE, json |-> TRUE, doc |-> json_dump(us), text |-> <<>>]

(***************************************************************************)
(* get_categories, generate_password, generate_and_show_password           *)
(***************************************************************************)
get_categories ==
    << <<1057, 1086, 1094, 1089, 1077, 1090, 1080>>,
       <<1041, 1072, 1085, 1082, 1080, 47, 1060, 1080, 1085, 1072, 1085, 1089, 1099>>,
       <<1056, 1072, 1073, 1086, 1090, 1072, 47, 1041, 1080, 1079, 1085, 1077, 1089>>,
       <<1069, 1083, 1077, 1082, 1090, 1088, 1086, 1085, 1085, 1072, 1103, 32, 1087,
         1086, 1095, 1090, 1072>>,
       <<1054, 1073, 1088, 1072, 1079, 1086, 1074, 1072, 1085, 1080, 1077>>,
       <<1056, 1072, 1079, 1074, 1083, 1077, 1095, 1077, 1085, 1080, 1103>>,
       <<1052, 1072, 1075, 1072, 1079, 1080, 1085, 1099, 47, 1055, 1086, 1082, 1091,
         1087, 1082, 1080>>,
       <<1047, 1076, 1086, 1088, 1086, 1074, 1100, 1077, 47, 1052, 1077, 1076, 1080,
         1094, 1080, 1085, 1072>>,
       <<1043, 1086, 1089, 1091, 1076, 1072, 1088, 1089, 1090, 1074, 1077, 1085, 1085,
         1099, 1077, 32, 1091, 1089, 1083, 1091, 1075, 1080>>,
       <<1044, 1088, 1091, 1075, 1086, 1077>> >>

\* string.ascii_letters, string.digits, "!@#$%^&*"
ascii_letters == Chars(97, 122) \o Chars(65, 90)
digits == Chars(48, 57)
special == <<33, 64, 35, 36, 37, 94, 38, 42>>

\* generate_password: draws[i] is what the random source yields for the i-th
\* secrets.choice (taken cyclically), an index into chars
\* the two flags are ignored: digits and special characters are always drawn from
generate_password_anyflags(length, use_digits, use_special, draws) ==
    LET chars == ascii_letters \o digits \o special
    IN  [i \in 1..length |-> chars[(draws[((i - 1) % Len(draws)) + 1] % Len(chars)) + 1]]

generate_password(length, use_digits, use_special, draws) ==
    LET chars == ascii_letters \o (IF use_digits THEN digits ELSE <<>>)
                               \o (IF use_special THEN special ELSE <<>>)
    IN  [i \in 1..length |-> chars[(draws[((i - 1) % Len(draws)) + 1] % Len(chars)) + 1]]

\* generate_and_show_password: g holds the three answers and the draws;
\* [raised, pwd]
generate_and_show_password(g) ==
    LET length_s == Strip(g.length)
        use_digits == Lower(Strip(g.digits)) # <<110>>
        use_special == Lower(Strip(g.special)) # <<110>>
    IN  IF IsDigit(length_s) /\ IntRaises(length_s)
        THEN [raised |-> "ValueError", pwd |-> <<>>]
        ELSE LET asked == IF IsDigit(length_s) THEN ParseInt(length_s) ELSE 12
                 length == IF asked < 4 THEN 12 ELSE asked
             IN  [raised |-> "none",
                  pwd |-> generate_password(length, use_digits, use_special, g.draws)]

(***************************************************************************)
(* create_account, login                                                   *)
(***************************************************************************)
NoPend == [resource |-> <<>>, category |-> <<>>, before |-> <<>>]

Report(op, res, arg, out) == last' = [op |-> op, res |-> res, arg |-> arg, out |-> out]

new_account(master) ==
    [master_password |-> master, passwords |-> <<>>, custom_categories |-> <<>>]

\* d[k] = v, for a dict
Put_alone(f, k, v) == [x \in {k} |-> v]

Put(f, k, v) == [x \in DOMAIN f \cup {k} |-> IF x = k THEN v ELSE f[x]]

\* del d[k]
Drop(f, k) == [x \in DOMAIN f \ {k} |-> f[x]]

\* not s, for a string
is_empty_never(s) == FALSE

is_empty(s) == s = <<>>

\* login_name in users
login_taken_never(us, login_name) == FALSE

login_taken(us, login_name) == login_name \in DOMAIN us

\* len(master) < 6
master_too_short_never(master) == FALSE

master_too_short(master) == Len(master) < 6

\* create_account(): [raised, login_name, file] for the three answers
create_account(f, login_raw, master, confirm) ==
    LET us == load_users(f)
        login_name == Strip(login_raw)
        fail(e) == [raised |-> e, login_name |-> login_name, file |-> f]
    IN  IF load_users_raises(f)
        THEN [raised |-> "JSONDecodeError", login_name |-> <<>>, file |-> f]
        ELSE IF is_empty(login_name) THEN fail("InvalidInputError")
        ELSE IF login_taken(us, login_name) THEN fail("UserExistsError")
        ELSE IF master_too_short(master) THEN fail("InvalidInputError")
        ELSE IF master # confirm THEN fail("InvalidInputError")
        ELSE [raised |-> IF save_users_raises(Put(us, login_name, new_account(master)))
                         THEN "UnicodeEncodeError" ELSE "none",
              login_name |-> login_name,
              file |-> save_users(Put(us, login_name, new_account(master)))]

\* create_account() and, when it returns, user_session(login_name, load_users());
\* what it raises is caught and printed by main()
CreateThenSession(op, login_raw, master, confirm) ==
    LET r == create_account(usersFile, login_raw, master, confirm)
    IN  /\ Report(op, r.raised,
                  IF r.raised = "JSONDecodeError" THEN <<>>
                  ELSE <<r.login_name, master, confirm>>, <<>>)
        /\ tries' = 0
        /\ pend' = NoPend
        /\ usersFile' = r.file
        /\ IF r.raised = "none"
           THEN /\ users' = load_users(r.file)
                /\ loginName' = r.login_name
                /\ pc' = "session"
                /\ plainMem' = <<>>
                /\ plainFile' = Put(plainFile, r.login_name, <<>>)
           ELSE /\ users' = EmptyStore
                /\ loginName' = <<>>
                /\ pc' = "main"
                /\ plainMem' = <<>>
                /\ UNCHANGED plainFile

\* main(), choice "1"
MainCreateAccount(login_raw, master, confirm) ==
    /\ pc = "main"
    /\ CreateThenSession("create_account", login_raw, master, confirm)
    /\ UNCHANGED <<charsetFile, CHARSET, cipherVars>>

\* main(), choice "2": login() up to its next prompt
LoginStart(login_raw) ==
    /\ pc = "main"
    /\ LET us == load_users(usersFile)
           login_name == Strip(login_raw)
       IN  IF load_users_raises(usersFile)
           THEN /\ users' = EmptyStore
                /\ loginName' = <<>>
                /\ Report("login", "JSONDecodeError", <<>>, <<>>)
                /\ plainMem' = <<>>
                /\ UNCHANGED pc
           ELSE /\ users' = us
                /\ IF DOMAIN us = {}
                   THEN /\ pc' = "login_create"
                        /\ loginName' = <<>>
                        /\ Report("login", "no_accounts", <<>>, <<>>)
                        /\ plainMem' = <<>>
                   ELSE IF ~login_taken(us, login_name)
                   THEN /\ pc' = "login_create"
                        /\ loginName' = login_name
                        /\ Report("login", "not_found", login_name, <<>>)
                        /\ plainMem' = <<>>
                   ELSE /\ pc' = "login_pw"
                        /\ loginName' = login_name
                        /\ Report("login", "ask_master", login_name, <<>>)
                        /\ plainMem' = plainFile[login_name]
    /\ tries' = 0
    /\ UNCHANGED <<usersFile, pend, plainFile, charsetFile, CHARSET, cipherVars>>

\* login(): the answer to "Создать аккаунт? (y/n)"
LoginCreate(create_raw, login_raw, master, confirm) ==
    /\ pc = "login_create"
    /\ IF Lower(Strip(create_raw)) = <<121>>
       THEN CreateThenSession("login_create", login_raw, master, confirm)
       ELSE /\ Report("login_create", "UserNotFoundError", <<loginName>>, <<>>)
            /\ pc' = "main"
            /\ users' = EmptyStore
            /\ loginName' = <<>>
            /\ UNCHANGED <<usersFile, tries, pend, plainMem, plainFile>>
    /\ UNCHANGED <<charsetFile, CHARSET, cipherVars>>

\* for tries in range(3): whether another pass follows this one
another_try_4(t) == t + 1 < 4

another_try(t) == t + 1 < 3

\* any master password is taken
master_matches_any(master, account) == TRUE

\* master == users[login_name]["master_password"]
master_matches(master, account) == master = account.master_password

\* login(): one pass of for tries in range(3), on the master password typed
LoginAttempt(master) ==
    /\ pc = "login_pw"
    /\ IF master_matches(master, users[loginName])
       THEN /\ pc' = "session"
            /\ Report("login_attempt", "logged_in", master, <<>>)
            /\ UNCHANGED <<users, loginName, tries, plainMem>>
       ELSE LET remaining == 2 - tries
                signal == IF remaining > 0 THEN <<remaining>> ELSE <<>>
            IN  IF another_try(tries)
                THEN /\ tries' = tries + 1
                     /\ Report("login_attempt", "wrong", master, signal)
                     /\ UNCHANGED <<pc, users, loginName, plainMem>>
                ELSE /\ Report("login_attempt", "AuthenticationError", master, signal)
                     /\ pc' = "main"
                     /\ users' = EmptyStore
                     /\ loginName' = <<>>
                     /\ plainMem' = <<>>
                     /\ UNCHANGED tries
    /\ UNCHANGED <<usersFile, pend, plainFile, charsetFile, CHARSET, cipherVars>>

(***************************************************************************)
(* user_session: the record operations                                     *)
(***************************************************************************)
Account == users[loginName]

\* what user_session leaves alone when a menu entry returns or raises
SessionFrame == UNCHANGED <<loginName, tries, charsetFile, CHARSET, cipherVars>>

\* the menu entry ended (returned, or raised into user_session's except)
\* without touching anything
BackToMenu(op, res, arg, out) ==
    /\ Report(op, res, arg, out)
    /\ pc' = "session"
    /\ pend' = NoPend
    /\ UNCHANGED <<users, usersFile, plainMem, plainFile>>

\* users[login_name]["passwords"][resource] = {"encrypted": ..., "category": ...}
StoreRecord_fixedshift(resource, password, category) ==
    users' = [users EXCEPT ![loginName].passwords =
                Put(@, resource,
                    [encrypted |-> caesar_cipher(password, 1, FALSE),
                     category |-> category])]

StoreRecord(resource, password, category) ==
    LET shift == Len(password)
        encrypted == caesar_cipher(password, shift, FALSE)
    IN  users' = [users EXCEPT ![loginName].passwords =
                    Put(@, resource, [encrypted |-> encrypted, category |-> category])]

\* resource in users[login_name]["passwords"]
resource_taken_never(passwords, resource) == FALSE

resource_taken(passwords, resource) == resource \in DOMAIN passwords

\* add_password(): the resource name, up to select_category's prompt
AddResource(resource_raw) ==
    /\ pc = "session"
    /\ LET resource == Strip(resource_raw)
       IN  IF is_empty(resource)
           THEN BackToMenu("add_password", "InvalidInputError", resource, <<>>)
           ELSE IF resource_taken(Account.passwords, resource)
           THEN BackToMenu("add_password", "ResourceExistsError", resource, <<>>)
           ELSE /\ pc' = "select_category"
                /\ pend' = [resource |-> resource, category |-> <<>>, before |-> Account]
                /\ Report("add_password", "ask_category", resource, <<>>)
                /\ UNCHANGED <<users, usersFile, plainMem, plainFile>>
    /\ SessionFrame

\* select_category(): one pass of its while True, on the number typed
SelectCategory(choice_raw) ==
    /\ pc = "select_category"
    /\ LET choice == Strip(choice_raw)
           standard_categories == get_categories
           custom_categories == Account.custom_categories
           total_standard == Len(standard_categories)
           total_categories == total_standard + Len(custom_categories)
           chosen(c) ==
               /\ pc' = "add_password"
               /\ pend' = [pend EXCEPT !.category = c]
               /\ Report("select_category", "selected", c, <<>>)
               /\ UNCHANGED <<users, usersFile, plainMem, plainFile>>
           again ==
               /\ Report("select_category", "invalid_choice", choice, <<>>)
               /\ UNCHANGED <<pc, pend, users, usersFile, plainMem, plainFile>>
       IN  IF ~IsDigit(choice) THEN again
           ELSE IF IntRaises(choice)
           THEN BackToMenu("add_password", "ValueError", pend.resource, <<>>)
           ELSE LET choice_num == ParseInt(choice)
                IN  IF 1 <= choice_num /\ choice_num <= total_standard
                    THEN chosen(standard_categories[choice_num])
                    ELSE IF total_standard < choice_num /\ choice_num <= total_categories
                    THEN chosen(custom_categories[choice_num - total_standard])
                    ELSE IF choice_num = total_categories + 1
                    THEN /\ pc' = "new_category"
                         /\ Report("select_category", "new", choice, <<>>)
                         /\ UNCHANGED <<pend, users, usersFile, plainMem, plainFile>>
                    ELSE again
    /\ SessionFrame

category_exists_custom_only(new_category, standard, custom) ==
    new_category \in Range(custom)

\* new_category in all_categories, the standard ones followed by the account's
category_exists(new_category, standard, custom) ==
    LET all_categories == standard \o custom
    IN  new_category \in Range(all_categories)

\* the name is not kept
with_category_lost(custom, new_category) == custom

\* users[login_name]["custom_categories"].append(new_category)
with_category(custom, new_category) == Append(custom, new_category)

\* create_new_category(): one pass of its while True, on the name typed
NewCategory(name_raw) ==
    /\ pc = "new_category"
    /\ LET new_category == Strip(name_raw)
       IN  IF is_empty(new_category)
           THEN /\ Report("create_new_category", "empty", new_category, <<>>)
                /\ UNCHANGED <<pc, pend, users, usersFile, plainMem, plainFile>>
           ELSE IF category_exists(new_category, get_categories, Account.custom_categories)
           THEN /\ Report("create_new_category", "exists", new_category, <<>>)
                /\ UNCHANGED <<pc, pend, users, usersFile, plainMem, plainFile>>
           ELSE /\ users' = [users EXCEPT ![loginName].custom_categories =
                                with_category(@, new_category)]
                /\ usersFile' = save_users(users')
                /\ IF save_users_raises(users')
                   THEN \* out of add_password, into user_session's except
                        /\ pc' = "session"
                        /\ pend' = NoPend
                        /\ Report("create_new_category", "UnicodeEncodeError",
                                  new_category, <<>>)
                        /\ UNCHANGED plainFile
                   ELSE /\ plainFile' = Put(plainFile, loginName, plainMem)
                        /\ pc' = "add_password"
                        /\ pend' = [pend EXCEPT !.category = new_category]
                        /\ Report("create_new_category", "created", new_category, <<>>)
                /\ UNCHANGED plainMem
    /\ SessionFrame

\* add_password(): the password typed (generated when empty), to the end
AddPassword(password_raw, g) ==
    /\ pc = "add_password"
    /\ LET gen == generate_and_show_password(g)
           password == IF is_empty(password_raw) THEN gen.pwd ELSE password_raw
       IN  IF is_empty(password_raw) /\ gen.raised # "none"
           THEN BackToMenu("add_password", gen.raised, pend.resource, <<>>)
           ELSE /\ StoreRecord(pend.resource, password, pend.category)
                /\ plainMem' = Put(plainMem, pend.resource, password)
                /\ pc' = "session"
                /\ pend' = NoPend
                /\ Report("add_password", "added", pend.resource, <<>>)
                /\ UNCHANGED <<usersFile, plainFile>>
    /\ SessionFrame

update_password_category_default(passwords, resource) == get_categories[10]

\* the category update_password keeps
update_password_category(passwords, resource) == passwords[resource].category

\* update_password()
UpdatePassword(resource_raw, password_raw, g) ==
    /\ pc = "session"
    /\ LET resource == Strip(resource_raw)
           gen == generate_and_show_password(g)
           password == IF is_empty(password_raw) THEN gen.pwd ELSE password_raw
       IN  IF is_empty(resource)
           THEN BackToMenu("update_password", "InvalidInputError", resource, <<>>)
           ELSE IF ~resource_taken(Account.passwords, resource)
           THEN BackToMenu("update_password", "ResourceNotFoundError", resource, <<>>)
           ELSE IF is_empty(password_raw) /\ gen.raised # "none"
           THEN BackToMenu("update_password", gen.raised, resource, <<>>)
           ELSE /\ StoreRecord(resource, password,
                               update_password_category(Account.passwords, resource))
                /\ plainMem' = Put(plainMem, resource, password)
                /\ Report("update_password", "updated", resource, <<>>)
                /\ UNCHANGED <<pc, pend, usersFile, plainFile>>
    /\ SessionFrame

delete_all(passwords, resource) == <<>>

\* del users[login_name]["passwords"][resource]
delete_record(passwords, resource) == Drop(passwords, resource)

\* delete_password()
DeletePassword(resource_raw, confirm_raw) ==
    /\ pc = "session"
    /\ LET resource == Strip(resource_raw)
           confirm == Lower(Strip(confirm_raw))
       IN  IF is_empty(resource)
           THEN BackToMenu("delete_password", "InvalidInputError", <<resource>>, <<>>)
           ELSE IF ~resource_taken(Account.passwords, resource)
           THEN BackToMenu("delete_password", "ResourceNotFoundError", <<resource>>, <<>>)
           ELSE IF confirm = <<121>>
           THEN /\ users' = [users EXCEPT ![loginName].passwords = delete_record(@, resource)]
                /\ plainMem' = Drop(plainMem, resource)
                /\ Report("delete_password", "deleted", <<resource, confirm>>, <<>>)
                /\ UNCHANGED <<pc, pend, usersFile, plainFile>>
           ELSE BackToMenu("delete_password", "cancelled", <<resource, confirm>>, <<>>)
    /\ SessionFrame

\* generate_and_show_password(), menu entry 4
GenerateShow(g) ==
    /\ pc = "session"
    /\ LET gen == generate_and_show_password(g)
       IN  BackToMenu("generate", IF gen.raised = "none" THEN "shown" ELSE gen.raised,
                      <<>>, gen.pwd)
    /\ SessionFrame

(***************************************************************************)
(* user_session: the listings, and leaving                                 *)
(***************************************************************************)
\* shift = len(data["encrypted"]); caesar_cipher(data["encrypted"], shift, decrypt=True)
DecryptRecord(data) == caesar_cipher(data.encrypted, Len(data.encrypted), TRUE)

\* sorted the other way round
Lines_reversed(passwords, resources) ==
    LET order == Sorted(resources)
        n == Len(order)
    IN  [i \in 1..n |->
            [resource |-> order[n + 1 - i],
             category |-> passwords[order[n + 1 - i]].category,
             password |-> DecryptRecord(passwords[order[n + 1 - i]])]]

\* the lines printed for a set of resources: sorted by name, each decrypted
Lines(passwords, resources) ==
    LET order == Sorted(resources)
    IN  [i \in 1..Len(order) |->
            [resource |-> order[i],
             category |-> passwords[order[i]].category,
             password |-> DecryptRecord(passwords[order[i]])]]

\* show_all_passwords()
ShowAll ==
    /\ pc = "session"
    /\ LET passwords == Account.passwords
           categories == {passwords[r].category : r \in DOMAIN passwords}
           order == Sorted(categories)
       IN  IF DOMAIN passwords = {}
           THEN BackToMenu("show_all", "empty", <<>>, <<>>)
           ELSE BackToMenu("show_all", "listed", <<>>,
                    [i \in 1..Len(order) |->
                        [category |-> order[i],
                         header |-> Upper(order[i]),
                         items |-> Lines(passwords,
                                     {r \in DOMAIN passwords :
                                         passwords[r].category = order[i]})]])
    /\ SessionFrame

in_category_any(data, selected_category) == TRUE

\* d.get("category") == selected_category
in_category(data, selected_category) == data.category = selected_category

\* show_passwords_by_category()
ShowByCategory(choice_raw) ==
    /\ pc = "session"
    /\ LET all_categories == get_categories \o Account.custom_categories
           choice == Strip(choice_raw)
           passwords == Account.passwords
       IN  IF ~IsDigit(choice)
           THEN BackToMenu("show_by_category", "invalid_choice", choice, <<>>)
           ELSE IF IntRaises(choice)
           THEN BackToMenu("show_by_category", "ValueError", choice, <<>>)
           ELSE IF ~(1 <= ParseInt(choice) /\ ParseInt(choice) <= Len(all_categories))
           THEN BackToMenu("show_by_category", "invalid_choice", choice, <<>>)
           ELSE LET selected_category == all_categories[ParseInt(choice)]
                    filtered == {r \in DOMAIN passwords :
                                    in_category(passwords[r], selected_category)}
                IN  IF filtered = {}
                    THEN BackToMenu("show_by_category", "empty", selected_category, <<>>)
                    ELSE BackToMenu("show_by_category", "listed", selected_category,
                                    Lines(passwords, filtered))
    /\ SessionFrame

matches_case_sensitive(search_term, resource) == Contains(resource, search_term)

\* search_term in resource.lower()
matches(search_term, resource) == Contains(Lower(resource), search_term)

\* search_passwords(); what is reported as asked is the answer after strip()
Search(term_raw) ==
    /\ pc = "session"
    /\ LET asked == Strip(term_raw)
           search_term == Lower(asked)
           passwords == Account.passwords
           found == {r \in DOMAIN passwords : matches(search_term, r)}
       IN  IF is_empty(search_term)
           THEN BackToMenu("search", "empty_query", asked, <<>>)
           ELSE IF found = {}
           THEN BackToMenu("search", "nothing_found", asked, <<>>)
           ELSE BackToMenu("search", "listed", asked, Lines(passwords, found))
    /\ SessionFrame

\* menu entry 8: save_users(users) and leave the session
SessionExit ==
    /\ pc = "session"
    /\ usersFile' = save_users(users)
    /\ IF save_users_raises(users)
       THEN \* user_session's except prints it, and the menu is shown again
            /\ Report("exit_session", "UnicodeEncodeError", loginName, <<>>)
            /\ UNCHANGED <<pc, users, loginName, plainMem, plainFile>>
       ELSE /\ plainFile' = Put(plainFile, loginName, plainMem)
            /\ pc' = "main"
            /\ users' = EmptyStore
            /\ loginName' = <<>>
            /\ plainMem' = <<>>
            /\ Report("exit_session", "saved", loginName, <<>>)
    /\ UNCHANGED <<tries, pend, charsetFile, CHARSET, cipherVars>>

\* any other answer to "Выбор: "
SessionInvalidChoice ==
    /\ pc = "session"
    /\ BackToMenu("user_menu", "invalid_choice", <<>>, <<>>)
    /\ SessionFrame

\* input() or getpass() raises EOFError.  Inside a menu entry user_session's
\* except Exception prints it and shows the menu again; at the menu prompt
\* and in login() it reaches main()'s except Exception, which goes back to the
\* main menu (nothing is saved); at the main menu's own prompt it ends the
\* program.
EndOfInput ==
    /\ pc \in {"main", "login_create", "login_pw", "session", "select_category",
               "new_category", "add_password"}
    /\ IF pc \in {"select_category", "new_category", "add_password"}
       THEN /\ pc' = "session"
            /\ UNCHANGED <<users, loginName, plainMem>>
       ELSE /\ pc' = IF pc = "main" THEN "exited" ELSE "main"
            /\ users' = EmptyStore
            /\ loginName' = <<>>
            /\ plainMem' = <<>>
    /\ pend' = NoPend
    /\ Report("input", "EOFError", <<>>, <<>>)
    /\ UNCHANGED <<usersFile, plainFile, tries, charsetFile, CHARSET, cipherVars>>

\* input() raises EOFError at a prompt inside a call the menus make and the
\* model takes in one step: in create_account() or at login()'s first prompt
\* (main()'s except Exception shows the main menu again), or in a menu entry
\* of user_session (its except Exception shows the menu again).  Nothing has
\* been changed by then.  Beside a users.json that cannot be read both
\* calls of main() raise before they ask anything.
EndOfInputInside ==
    /\ pc \in {"main", "session"}
    /\ pc = "main" => ~load_users_raises(usersFile)
    /\ Report("input", "EOFError", <<>>, <<>>)
    /\ UNCHANGED <<pc, users, loginName, plainMem, pend, usersFile, plainFile, tries,
                   charsetFile, CHARSET, cipherVars>>

\* KeyboardInterrupt at any prompt: no except Exception catches it, main()
\* breaks out of its loop (or dies at its own prompt); nothing is saved
Interrupt ==
    /\ pc \in {"main", "login_create", "login_pw", "session", "select_category",
               "new_category", "add_password"}
    /\ pc' = "exited"
    /\ users' = EmptyStore
    /\ loginName' = <<>>
    /\ plainMem' = <<>>
    /\ pend' = NoPend
    /\ Report("input", "KeyboardInterrupt", <<>>, <<>>)
    /\ UNCHANGED <<usersFile, plainFile, tries, charsetFile, CHARSET, cipherVars>>

\* main(), choice "3"
MainExit ==
    /\ pc = "main"
    /\ pc' = "exited"
    /\ Report("main_menu", "exit", <<>>, <<>>)
    /\ UNCHANGED <<usersFile, users, loginName, tries, pend, plainMem, plainFile,
                   charsetFile, CHARSET, cipherVars>>

\* main(), any other choice
MainInvalidChoice ==
    /\ pc = "main"
    /\ Report("main_menu", "invalid_choice", <<>>, <<>>)
    /\ UNCHANGED <<pc, usersFile, users, loginName, tries, pend, plainMem, plainFile,
                   charsetFile, CHARSET, cipherVars>>

(***************************************************************************)
(* caesar_cipher on its own: a text and a shift are drawn, the cipher is   *)
(* applied in one direction and then in the other.                         *)
(***************************************************************************)
MaxLen == 3
ShiftBound == 3

\* 'a', '~', '0' (in both alphabets or in the default one), and the
\* Cyrillic letter U+044F, which is in neither
SampleChars == {97, 126, 48, 1103}

Texts == UNION {[1..n -> SampleChars] : n \in 0..MaxLen}

\* shifts around 0 and around multiples of the alphabet lengths, and far ones
Shifts ==
    {m * Len(default_charset) + d : m \in {-2, -1, 0, 1, 2}, d \in (-ShiftBound)..ShiftBound}
        \cup {10000, -10000}

InitCipher ==
    /\ cText \in Texts
    /\ cShift \in Shifts
    /\ cDecrypt = FALSE /\ cOut = <<>> /\ cBack = <<>>
    /\ cStage = "input"
    /\ lists = <<>>

CipherApply(d) ==
    /\ cStage = "input"
    /\ cDecrypt' = d
    /\ cOut' = caesar_cipher(cText, cShift, d)
    /\ cStage' = "applied"
    /\ UNCHANGED <<cText, cShift, cBack, lists, charsetFile, CHARSET, mainVars>>

CipherInvert ==
    /\ cStage = "applied"
    /\ cBack' = caesar_cipher(cOut, cShift, ~cDecrypt)
    /\ cStage' = "inverted"
    /\ UNCHANGED <<cText, cShift, cDecrypt, cOut, lists, charsetFile, CHARSET, mainVars>>



MainIdle ==
    /\ usersFile = NoUsersFile
    /\ users = EmptyStore
    /\ pc = "off"
    /\ loginName = <<>>
    /\ tries = 0
    /\ pend = NoPend
    /\ last = [op |-> "start", res |-> "ok", arg |-> <<>>, out |-> <<>>]
    /\ plainMem = <<>>
    /\ plainFile = <<>>

InitC == InitCharset({NoCharsetFile, CustomCharsetFile}) /\ MainIdle /\ InitCipher

NextC == (\E d \in BOOLEAN : CipherApply(d)) \/ CipherInvert

SpecCipher == InitC /\ [][NextC]_vars

(***************************************************************************)
(* The program: main() from a fresh directory                              *)
(***************************************************************************)
\* caesar_cipher is not exercised on its own
CipherIdle ==
    /\ cText = <<>> /\ cShift = 0 /\ cDecrypt = FALSE
    /\ cOut = <<>> /\ cBack = <<>> /\ cStage = "off"
    /\ lists = <<>>

InitMain ==
    /\ usersFile = NoUsersFile
    /\ users = EmptyStore
    /\ pc = "main"
    /\ loginName = <<>>
    /\ tries = 0
    /\ pend = NoPend
    /\ last = [op |-> "start", res |-> "ok", arg |-> <<>>, out |-> <<>>]
    /\ plainMem = <<>>
    /\ plainFile = <<>>

\* a step of main() or login(), its answers drawn from the sets of I
AccountStep(I) ==
    \/ \E c \in I.creates : MainCreateAccount(c[1], c[2], c[3])
    \/ \E l \in I.logins : LoginStart(l)
    \/ \E y \in I.answers, c \in I.creates : LoginCreate(y, c[1], c[2], c[3])
    \/ \E m \in I.masters : LoginAttempt(m)
    \/ MainExit
    \/ MainInvalidChoice

\* a step of user_session(), its answers drawn from the sets of I
SessionStep(I) ==
    \/ \E r \in I.resources : AddResource(r)
    \/ \E n \in I.choices : SelectCategory(n)
    \/ \E n \in I.names : NewCategory(n)
    \/ \E p \in I.passwords : AddPassword(p[1], p[2])
    \/ \E r \in I.resources, p \in I.passwords : UpdatePassword(r, p[1], p[2])
    \/ \E r \in I.resources, y \in I.answers : DeletePassword(r, y)
    \/ \E p \in I.passwords : GenerateShow(p[2])
    \/ ShowAll
    \/ \E n \in I.choices : ShowByCategory(n)
    \/ \E t \in I.terms : Search(t)
    \/ SessionExit
    \/ SessionInvalidChoice

\* "alice", " bob", "secret1", "secret2", "abc"
S_alice == <<97, 108, 105, 99, 101>>
S_bob == <<98, 111, 98>>
S_bob_raw == <<32, 98, 111, 98>>
S_secret1 == <<115, 101, 99, 114, 101, 116, 49>>
S_secret2 == <<115, 101, 99, 114, 101, 116, 50>>
S_abc == <<97, 98, 99>>
\* "b" and U+DC80, what input() returns for the bytes 62 80 when stdin
\* escapes what it cannot decode
S_lone == <<98, 56448>>
\* "Google.com", "a.ru", " a.ru "
S_google == <<71, 111, 111, 103, 108, 101, 46, 99, 111, 109>>
S_aru == <<97, 46, 114, 117>>
S_aru_raw == <<32, 97, 46, 114, 117, 32>>
\* "Sw0rd!", "Z" U+044F "~"
S_sword == <<83, 119, 48, 114, 100, 33>>
S_mixed == <<90, 1103, 126>>
\* U+0418 U+0433 U+0440 U+044B and U+0414 U+043E U+043C, two new categories
S_games == <<1048, 1075, 1088, 1099>>
S_home == <<1044, 1086, 1084>>

\* answers to generate_and_show_password: length "4", letters and digits;
\* and the length U+00B2, which isdigit() accepts and int() refuses
G_four == [length |-> <<52>>, digits |-> <<121>>, special |-> <<110>>,
           draws |-> <<0, 27, 52, 61>>]
G_bad == [length |-> <<178>>, digits |-> <<>>, special |-> <<>>, draws |-> <<0>>]

AccountInputs ==
    [creates |-> {<<l, m[1], m[2]>> :
                    l \in {<<>>, S_alice, S_bob_raw, S_lone},
                    m \in {<<S_abc, S_abc>>, <<S_secret1, S_secret1>>,
                           <<S_secret1, S_secret2>>, <<S_secret2, S_secret2>>}},
     logins |-> {S_alice, S_bob_raw},
     answers |-> {<<89>>, <<110>>},
     masters |-> {S_secret1, S_secret2},
     resources |-> {<<>>, S_aru_raw},
     choices |-> {<<49>>, <<49, 49>>},
     names |-> {S_games, S_lone},
     passwords |-> {<<S_sword, G_four>>},
     terms |-> {<<65>>}]

RecordInputs ==
    [creates |-> {<<S_alice, S_secret1, S_secret1>>},
     logins |-> {S_alice},
     answers |-> {<<89>>, <<110>>},
     masters |-> {S_secret1},
     resources |-> {<<>>, S_aru_raw, S_google},
     choices |-> {<<49>>, <<49, 49>>, <<49, 50>>, <<49, 51>>, <<120>>, <<178>>},
     names |-> {<<>>, get_categories[10], S_games, S_home},
     passwords |-> {<<S_mixed, G_four>>, <<<<>>, G_four>>, <<<<>>, G_bad>>},
     terms |-> {<<>>, <<71, 79, 79>>, <<46>>, <<120>>}]

\* "b.io"
S_bio == <<98, 46, 105, 111>>

\* three resources, filed under a standard category or one new category, and
\* queries in upper case
ListInputs ==
    [creates |-> {<<S_alice, S_secret1, S_secret1>>},
     answers |-> {<<89>>},
     resources |-> {S_aru_raw, S_google, S_bio},
     choices |-> {<<49>>, <<49, 49>>},
     names |-> {S_games},
     passwords |-> {<<S_mixed, G_four>>},
     terms |-> {<<>>, <<71, 79, 79>>, <<79>>, <<46>>, <<120>>}]

\* 'a', '~' and U+044F
PasswordChars == {97, 126, 1103}

PasswordTexts == UNION {[1..n -> PasswordChars] : n \in 1..MaxLen}

PasswordInputs ==
    [creates |-> {<<S_alice, S_secret1, S_secret1>>},
     answers |-> {<<89>>, <<110>>},
     resources |-> {<<>>, S_aru_raw},
     choices |-> {<<49>>, <<49, 49>>},
     names |-> {S_games},
     passwords |-> {<<t, G_four>> : t \in PasswordTexts \cup {<<>>}},
     terms |-> {<<65>>}]

\* the whole program, two accounts, few records
Init == InitCharset({NoCharsetFile}) /\ InitMain /\ CipherIdle
Next ==
    \/ AccountStep(AccountInputs) \/ SessionStep(AccountInputs)
    \/ EndOfInput \/ EndOfInputInside \/ Interrupt
Spec == Init /\ [][Next]_vars

\* one run that creates an account and works in its session until it leaves
SessionRun(I) ==
    \/ \E c \in I.creates : MainCreateAccount(c[1], c[2], c[3])
    \/ SessionStep(I)
    \/ EndOfInput
    \/ EndOfInputInside
    \/ Interrupt

\* ... with two resources and two new categories
InitRecords == InitCharset({NoCharsetFile}) /\ InitMain /\ CipherIdle
NextRecords == SessionRun(RecordInputs)
SpecRecords == InitRecords /\ [][NextRecords]_vars

\* ... with one resource and every password of PasswordTexts, over either alphabet
InitPasswords == InitCharset({NoCharsetFile, CustomCharsetFile}) /\ InitMain /\ CipherIdle
NextPasswords == SessionRun(PasswordInputs)
SpecPasswords == InitPasswords /\ [][NextPasswords]_vars

\* ... with three resources, to be listed and searched
InitListings == InitCharset({NoCharsetFile}) /\ InitMain /\ CipherIdle
NextListings == SessionRun(ListInputs)
SpecListings == InitListings /\ [][NextListings]_vars

\* the users.json main() may find: none, one of no bytes, one that is not
\* JSON, one a save_users that raised has cut, the one save_users writes for
\* no account and for one account
S_alice_store == Put(EmptyStore, S_alice, new_account(S_secret1))

UsersFiles ==
    {NoUsersFile, EmptyUsersFile, BrokenUsersFile, CutUsersFile,
     save_users(EmptyStore), save_users(S_alice_store)}

FileInputs ==
    [creates |-> {<<l, m[1], m[2]>> :
                    l \in {<<>>, S_alice, S_bob_raw, S_lone},
                    m \in {<<S_secret1, S_secret1>>, <<S_secret1, S_secret2>>}},
     logins |-> {S_alice, S_bob_raw},
     answers |-> {<<89>>, <<110>>},
     masters |-> {S_secret1, S_secret2}]

\* main() started beside any of these files
InitFiles ==
    /\ InitCharset({NoCharsetFile})
    /\ usersFile \in UsersFiles
    /\ users = EmptyStore
    /\ pc = "main"
    /\ loginName = <<>>
    /\ tries = 0
    /\ pend = NoPend
    /\ last = [op |-> "start", res |-> "ok", arg |-> <<>>, out |-> <<>>]
    /\ plainMem = <<>>
    /\ plainFile = IF load_users_raises(usersFile) THEN <<>>
                   ELSE [k \in DOMAIN load_users(usersFile) |-> <<>>]
    /\ CipherIdle

NextFiles ==
    \/ AccountStep(FileInputs) \/ SessionExit
    \/ EndOfInput \/ EndOfInputInside \/ Interrupt
SpecFiles == InitFiles /\ [][NextFiles]_vars

(***************************************************************************)
(* save_users and load_users on their own: any of the stores below is      *)
(* written over whatever users.json holds, and users.json is loaded.       *)
(***************************************************************************)
\* two records, with characters outside ASCII
S_records ==
    Put(Put(<<>>, S_google, [encrypted |-> <<120, 1103, 34>>, category |-> S_games]),
        S_aru, [encrypted |-> <<92>>, category |-> get_categories[1]])

SampleAccounts ==
    {[master_password |-> S_secret1, passwords |-> p, custom_categories |-> c] :
        p \in {<<>>, S_records},
        c \in {<<>>, <<S_home, S_games>>}}

\* no account, one account, two accounts, and the dict create_account hands
\* to save_users for the login S_lone
Stores ==
    {EmptyStore}
        \cup {Put(EmptyStore, S_alice, a) : a \in SampleAccounts}
        \cup {Put(Put(EmptyStore, S_alice, a), S_bob, b) : a, b \in SampleAccounts}
        \cup {Put(S_alice_store, S_lone, new_account(S_secret1))}

InitStore ==
    /\ InitCharset({NoCharsetFile})
    /\ usersFile \in UsersFiles
    /\ users = EmptyStore
    /\ pc = "off"
    /\ loginName = <<>>
    /\ tries = 0
    /\ pend = NoPend
    /\ last = [op |-> "start", res |-> "ok", arg |-> <<>>, out |-> <<>>]
    /\ plainMem = <<>>
    /\ plainFile = <<>>
    /\ CipherIdle

\* save_users(us); the report keeps the file as the call found it
SaveUsers(us) ==
    /\ pc = "off"
    /\ usersFile' = save_users(us)
    /\ Report("save_users", IF save_users_raises(us) THEN "UnicodeEncodeError" ELSE "ok",
              us, usersFile)
    /\ UNCHANGED <<users, pc, loginName, tries, pend, plainMem, plainFile,
                   charsetFile, CHARSET, cipherVars>>

\* users = load_users()
LoadUsers ==
    /\ pc = "off"
    /\ IF load_users_raises(usersFile)
       THEN /\ Report("load_users", "JSONDecodeError", <<>>, <<>>)
            /\ UNCHANGED users
       ELSE /\ Report("load_users", "ok", <<>>, <<>>)
            /\ users' = load_users(usersFile)
    /\ UNCHANGED <<usersFile, pc, loginName, tries, pend, plainMem, plainFile,
                   charsetFile, CHARSET, cipherVars>>

NextStore == (\E us \in Stores : SaveUsers(us)) \/ LoadUsers
SpecStore == InitStore /\ [][NextStore]_vars

(***************************************************************************)
(* get_categories on its own: it is called, and the lists it returned are  *)
(* appended to and removed from.                                           *)
(***************************************************************************)
MaxLists == 3

\* "Test"
S_test == <<84, 101, 115, 116>>

fresh_list_shared(heap) == IF heap = <<>> THEN Len(heap) + 1 ELSE 1

\* return [...]: a list display builds a new list object at every evaluation
fresh_list(heap) == Len(heap) + 1

\* cats = get_categories(): the object returned and what it holds
GetCategories ==
    /\ pc = "off"
    /\ Len(lists) < MaxLists
    /\ LET id == fresh_list(lists)
       IN  /\ lists' = IF id \in DOMAIN lists THEN lists ELSE Append(lists, get_categories)
           /\ Report("get_categories", "returned", id, lists'[id])
    /\ UNCHANGED <<usersFile, users, pc, loginName, tries, pend, plainMem, plainFile,
                   charsetFile, CHARSET, cText, cShift, cDecrypt, cOut, cBack, cStage>>

\* cats.append(x), on a list returned earlier (each x once)
ListAppend(id, x) ==
    /\ pc = "off"
    /\ id \in DOMAIN lists
    /\ x \notin Range(lists[id])
    /\ lists' = [lists EXCEPT ![id] = Append(@, x)]
    /\ Report("list_append", "ok", id, <<>>)
    /\ UNCHANGED <<usersFile, users, pc, loginName, tries, pend, plainMem, plainFile,
                   charsetFile, CHARSET, cText, cShift, cDecrypt, cOut, cBack, cStage>>

\* del cats[i - 1], on a list returned earlier that has its 10 items or more
ListRemove(id, i) ==
    /\ pc = "off"
    /\ id \in DOMAIN lists
    /\ Len(lists[id]) >= Len(get_categories)
    /\ i \in 1..Len(lists[id])
    /\ lists' = [lists EXCEPT ![id] = SubSeq(@, 1, i - 1) \o SubSeq(@, i + 1, Len(@))]
    /\ Report("list_remove", "ok", id, <<>>)
    /\ UNCHANGED <<usersFile, users, pc, loginName, tries, pend, plainMem, plainFile,
                   charsetFile, CHARSET, cText, cShift, cDecrypt, cOut, cBack, cStage>>

InitCategories == InitCharset({NoCharsetFile}) /\ MainIdle /\ CipherIdle

NextCategories ==
    \/ GetCategories
    \/ \E id \in 1..MaxLists : ListAppend(id, S_test)
    \/ \E id \in 1..MaxLists, i \in {1, Len(get_categories)} : ListRemove(id, i)

SpecCategories == InitCategories /\ [][NextCategories]_vars

(***************************************************************************)
(* generate_password on its own                                            *)
(***************************************************************************)
\* lengths below, at and above 0, the default 12 among them
Lengths == {-5, -1, 0, 1, 2, MaxLen, 10, 12}

\* what secrets.choice draws, as an index taken modulo the length of the pool:
\* the first and last letter, the first and last digit, the last special
\* character of the longest pool
DrawValues == {0, 51, 52, 61, 69}

Draws == {<<a, b>> : a, b \in DrawValues}

\* pwd = generate_password(length, use_digits, use_special)
GeneratePassword(length, use_digits, use_special, draws) ==
    /\ pc = "off"
    /\ Report("generate_password", "returned", <<length, use_digits, use_special, draws>>,
              generate_password(length, use_digits, use_special, draws))
    /\ UNCHANGED <<usersFile, users, pc, loginName, tries, pend, plainMem, plainFile,
                   charsetFile, CHARSET, cipherVars>>

InitGenerate == InitCharset({NoCharsetFile}) /\ MainIdle /\ CipherIdle

NextGenerate ==
    \E length \in Lengths, use_digits \in BOOLEAN, use_special \in BOOLEAN, draws \in Draws :
        GeneratePassword(length, use_digits, use_special, draws)

SpecGenerate == InitGenerate /\ [][NextGenerate]_vars

(***************************************************************************)
(* The import of the module: CHARSET = load_charset() runs once, beside a  *)
(* charset.txt or without one, and caesar_cipher works on what it returned. *)
(***************************************************************************)
\* 'b', 'c', 'd', the punctuation mark '!' and '~', the last character of the
\* default alphabet and the first of the hand-written one
AlphabetChars == {98, 99, 100, 33, 126}

AlphabetTexts == UNION {[1..n -> AlphabetChars] : n \in 0..MaxLen}

\* shifts around 0 and around the length of the default alphabet, and the
\* length of the hand-written one
AlphabetShifts ==
    {m * Len(default_charset) + d : m \in {-1, 0, 1}, d \in {-1, 0, 1}}
        \cup {-ShiftBound, ShiftBound}

InitAlphabet ==
    /\ charsetFile \in {NoCharsetFile, CustomCharsetFile}
    /\ CHARSET = <<>>
    /\ MainIdle
    /\ cText \in AlphabetTexts
    /\ cShift \in AlphabetShifts
    /\ cDecrypt = FALSE /\ cOut = <<>> /\ cBack = <<>>
    /\ cStage = "import"
    /\ lists = <<>>

\* CHARSET = load_charset()
LoadCharset ==
    /\ cStage = "import"
    /\ charsetFile' = load_charset_file(charsetFile)
    /\ CHARSET' = load_charset(charsetFile)
    /\ Report("load_charset", IF charsetFile.exists THEN "read" ELSE "written",
              charsetFile, CHARSET')
    /\ cStage' = "input"
    /\ UNCHANGED <<usersFile, users, pc, loginName, tries, pend, plainMem, plainFile,
                   cText, cShift, cDecrypt, cOut, cBack, lists>>

NextAlphabet == LoadCharset \/ (\E d \in BOOLEAN : CipherApply(d)) \/ CipherInvert

SpecCharset == InitAlphabet /\ [][NextAlphabet]_vars

(***************************************************************************)
(* Properties                                                              *)
(***************************************************************************)
NoDuplicates(seq) == \A i, j \in 1..Len(seq) : seq[i] = seq[j] => i = j

\* C1: over a duplicate-free alphabet, encrypting a text with shift k and
\* decrypting the result with the same k gives the text back, for every text
\* and every k (zero, negative, far beyond the alphabet length).
C1_RoundTrip ==
    (cStage = "inverted" /\ ~cDecrypt /\ NoDuplicates(CHARSET)) => cBack = cText

\* a text of the longest length whose encryption under a shift below minus the
\* alphabet length differs from it has been decrypted
C1_Witness ==
    /\ cStage = "inverted" /\ ~cDecrypt /\ NoDuplicates(CHARSET)
    /\ cOut # cText /\ cShift < -Len(CHARSET) /\ Len(cText) = MaxLen

SessionPcs == {"session", "select_category", "new_category", "add_password"}

\* C2: every record of the session's account decrypts (shift = length of the
\* stored string) to the non-empty plaintext add_password or update_password
\* was given for it, and every line the three listings print shows that
\* plaintext.
C2_DecryptRoundTrip ==
    /\ pc \in SessionPcs =>
        /\ DOMAIN plainMem = DOMAIN Account.passwords
        /\ \A r \in DOMAIN plainMem :
            /\ plainMem[r] # <<>>
            /\ DecryptRecord(Account.passwords[r]) = plainMem[r]
    /\ (last.op \in {"show_by_category", "search"} /\ last.res = "listed") =>
        \A i \in 1..Len(last.out) : last.out[i].password = plainMem[last.out[i].resource]
    /\ (last.op = "show_all" /\ last.res = "listed") =>
        \A i \in 1..Len(last.out) : \A j \in 1..Len(last.out[i].items) :
            last.out[i].items[j].password = plainMem[last.out[i].items[j].resource]

\* show_all has printed a password of the longest length that mixes alphabet
\* and Cyrillic characters and is stored as a different string
C2_Witness ==
    /\ last.op = "show_all" /\ last.res = "listed"
    /\ \E i \in 1..Len(last.out) : \E j \in 1..Len(last.out[i].items) :
        LET line == last.out[i].items[j]
        IN  /\ 1103 \in Range(line.password)
            /\ Range(line.password) \cap Range(CHARSET) # {}
            /\ Len(line.password) = MaxLen
            /\ Account.passwords[line.resource].encrypted # line.password

\* C3: login() asks for the master password at most 3 times: a matching one
\* opens the session at once (on the 3rd try too), the 1st wrong one signals 2
\* tries left, the 2nd signals 1, the 3rd signals nothing and raises
\* AuthenticationError.
C3_Step ==
    (pc = "login_pw" /\ last'.op = "login_attempt") =>
        LET typed == last'.arg
            stored == users[loginName].master_password
        IN  /\ tries \in 0..2
            /\ typed = stored =>
                /\ pc' = "session" /\ last'.res = "logged_in"
                /\ users' = users /\ loginName' = loginName
            /\ (typed # stored /\ tries = 0) =>
                pc' = "login_pw" /\ tries' = 1 /\ last'.out = <<2>>
            /\ (typed # stored /\ tries = 1) =>
                pc' = "login_pw" /\ tries' = 2 /\ last'.out = <<1>>
            /\ (typed # stored /\ tries = 2) =>
                /\ pc' = "main" /\ last'.res = "AuthenticationError"
                /\ last'.out = <<>>

C3_ThreeAttempts == [][C3_Step]_vars

\* the third try matched, after two wrong ones
C3_Witness ==
    /\ pc = "session" /\ last.op = "login_attempt" /\ last.res = "logged_in"
    /\ tries = 2

\* every account, in users.json and in memory, has a non-empty login and a
\* master password of 6 characters or more
AccountsValid ==
    \A us \in {load_users(usersFile), users} : \A k \in DOMAIN us :
        k # <<>> /\ Len(us[k].master_password) >= 6

CreateActed ==
    /\ pc \in {"main", "login_create"}
    /\ last'.op \in {"create_account", "login_create"}
    /\ Len(last'.arg) = 3

\* C4: create_account raises InvalidInputError for an empty login and, once
\* the login is accepted, for a master password under 6 characters or one that
\* differs from its confirmation; users.json is then left as it was and no
\* session opens; so every account has a non-empty login and a master
\* password of at least 6 characters.
C4_Step ==
    /\ CreateActed =>
        LET login_name == last'.arg[1]
            master == last'.arg[2]
            confirm == last'.arg[3]
            before == load_users(usersFile)
        IN  (\/ login_name = <<>>
             \/ /\ login_name \notin DOMAIN before
                /\ (Len(master) < 6 \/ master # confirm)) =>
                /\ last'.res = "InvalidInputError"
                /\ usersFile' = usersFile
                /\ users' = EmptyStore
                /\ pc' = "main"
    /\ AccountsValid'

C4_InvalidInput == [][C4_Step]_vars

\* a master password under 6 characters was refused while users.json held an
\* account
C4_Witness ==
    /\ last.op = "create_account" /\ last.res = "InvalidInputError"
    /\ last.arg[1] # <<>> /\ Len(last.arg[2]) < 6 /\ last.arg[2] = last.arg[3]
    /\ DOMAIN load_users(usersFile) # {}

\* no login is written twice in users.json
UniqueLogins == \A a, b \in usersFile.doc : a[1] = b[1] => a = b

\* C5: create_account with a login that users.json already holds raises
\* UserExistsError and leaves users.json, hence that account's master
\* password, records and categories, as it was; logins stay unique.
C5_Step ==
    /\ CreateActed =>
        LET login_name == last'.arg[1]
            before == load_users(usersFile)
        IN  (login_name # <<>> /\ login_name \in DOMAIN before) =>
                /\ last'.res = "UserExistsError"
                /\ usersFile' = usersFile
                /\ load_users(usersFile')[login_name] = before[login_name]
                /\ users' = EmptyStore
                /\ pc' = "main"
    /\ UniqueLogins'

C5_AlreadyExists == [][C5_Step]_vars

\* refused for an account that has a record and a category of its own, with a
\* master password other than its own
C5_Witness ==
    /\ last.op = "create_account" /\ last.res = "UserExistsError"
    /\ LET held == load_users(usersFile)[last.arg[1]]
       IN  /\ held.master_password # last.arg[2]
           /\ DOMAIN held.passwords # {}
           /\ held.custom_categories # <<>>

\* C6: a create_account that returns has added one account under the login
\* typed, with the master password typed, no records and no categories, left
\* every other account as it was, and written exactly that to users.json; the
\* session opens on it.
C6_Step ==
    (CreateActed /\ last'.res = "none") =>
        LET login_name == last'.arg[1]
            before == load_users(usersFile)
            after == load_users(usersFile')
        IN  /\ login_name \notin DOMAIN before
            /\ DOMAIN after = DOMAIN before \cup {login_name}
            /\ after[login_name].master_password = last'.arg[2]
            /\ DOMAIN after[login_name].passwords = {}
            /\ after[login_name].custom_categories = <<>>
            /\ \A k \in DOMAIN before : after[k] = before[k]
            /\ users' = after
            /\ pc' = "session" /\ loginName' = login_name

C6_Created == [][C6_Step]_vars

\* a second account was created beside one that has a record
C6_Witness ==
    /\ last.op \in {"create_account", "login_create"} /\ last.res = "none"
    /\ pc = "session"
    /\ \E k \in DOMAIN users : k # loginName /\ DOMAIN users[k].passwords # {}

\* the step left the session's store and users.json alone and is back at the menu
NothingChanged == users' = users /\ usersFile' = usersFile /\ pc' = "session"

\* C7: add_password raises InvalidInputError for an empty resource name and
\* ResourceExistsError for one the account already has, changing neither
\* records nor categories; a record is only ever added under a name the
\* account did not have.
C7_Step ==
    /\ (pc = "session" /\ last'.op = "add_password") =>
        LET resource == last'.arg
        IN  /\ resource = <<>> =>
                last'.res = "InvalidInputError" /\ NothingChanged
            /\ (resource # <<>> /\ resource \in DOMAIN Account.passwords) =>
                last'.res = "ResourceExistsError" /\ NothingChanged
    /\ (pc = "add_password" /\ last'.op = "add_password" /\ last'.res = "added") =>
        /\ last'.arg \notin DOMAIN Account.passwords
        /\ DOMAIN users'[loginName].passwords = DOMAIN Account.passwords \cup {last'.arg}
        /\ \A r \in DOMAIN Account.passwords :
            users'[loginName].passwords[r] = Account.passwords[r]

C7_AddRefused == [][C7_Step]_vars

\* refused for a name the account has, the account holding two records and a
\* category of its own
C7_Witness ==
    /\ pc = "session" /\ last.op = "add_password" /\ last.res = "ResourceExistsError"
    /\ Cardinality(DOMAIN Account.passwords) = 2
    /\ Account.custom_categories # <<>>

\* C8: an update_password that succeeds replaces the resource's encrypted
\* password by the new one shifted by its length, keeps the record's category,
\* and leaves every other record, the categories, the master password and
\* users.json as they were.
C8_Step ==
    (pc = "session" /\ last'.op = "update_password" /\ last'.res = "updated") =>
        LET resource == last'.arg
            password == plainMem'[resource]
            old == Account
            new == users'[loginName]
        IN  /\ resource \in DOMAIN old.passwords
            /\ DOMAIN new.passwords = DOMAIN old.passwords
            /\ new.passwords[resource].category = old.passwords[resource].category
            /\ new.passwords[resource].encrypted
                    = caesar_cipher(password, Len(password), FALSE)
            /\ \A r \in DOMAIN old.passwords \ {resource} :
                    new.passwords[r] = old.passwords[r]
            /\ new.custom_categories = old.custom_categories
            /\ new.master_password = old.master_password
            /\ DOMAIN users' = DOMAIN users
            /\ usersFile' = usersFile

C8_UpdateFrame == [][C8_Step]_vars

\* a record filed under a category of the account's own was updated to a new
\* encrypted password, beside another record
C8_Witness ==
    /\ pc = "session" /\ last.op = "update_password" /\ last.res = "updated"
    /\ Cardinality(DOMAIN Account.passwords) = 2
    /\ Account.passwords[last.arg].category \in Range(Account.custom_categories)
    /\ LET saved == load_users(usersFile)[loginName].passwords
       IN  /\ last.arg \in DOMAIN saved
           /\ saved[last.arg].encrypted # Account.passwords[last.arg].encrypted

\* C9: update_password and delete_password raise InvalidInputError for an
\* empty resource name and ResourceNotFoundError for a name the account does
\* not have; nothing is then created, changed or removed.
C9_Step ==
    (pc = "session" /\ last'.op \in {"update_password", "delete_password"}) =>
        LET resource == IF last'.op = "delete_password" THEN last'.arg[1] ELSE last'.arg
        IN  /\ resource = <<>> =>
                last'.res = "InvalidInputError" /\ NothingChanged
            /\ (resource # <<>> /\ resource \notin DOMAIN Account.passwords) =>
                last'.res = "ResourceNotFoundError" /\ NothingChanged

C9_NotFound == [][C9_Step]_vars

\* a delete of a name the account does not have was refused, the account
\* holding another record
C9_Witness ==
    /\ pc = "session" /\ last.op = "delete_password"
    /\ last.res = "ResourceNotFoundError"
    /\ DOMAIN Account.passwords # {}

\* C10: delete_password of a resource the account has, when the answer is not
\* "y", changes nothing and returns (no exception); when it is "y", removes that
\* record and leaves every other record, the categories and users.json alone.
C10_Step ==
    (pc = "session" /\ last'.op = "delete_password" /\ Len(last'.arg) = 2) =>
        LET resource == last'.arg[1]
            confirm == last'.arg[2]
            old == Account
            new == users'[loginName]
        IN  /\ resource \in DOMAIN old.passwords
            /\ confirm # <<121>> => last'.res = "cancelled" /\ NothingChanged
            /\ confirm = <<121>> =>
                /\ last'.res = "deleted"
                /\ DOMAIN new.passwords = DOMAIN old.passwords \ {resource}
                /\ \A r \in DOMAIN new.passwords : new.passwords[r] = old.passwords[r]
                /\ new.custom_categories = old.custom_categories
                /\ new.master_password = old.master_password
                /\ DOMAIN users' = DOMAIN users
                /\ usersFile' = usersFile
                /\ pc' = "session"

C10_DeleteConfirm == [][C10_Step]_vars

\* one of two records was deleted, the account having a category of its own
C10_Witness ==
    /\ pc = "session" /\ last.op = "delete_password" /\ last.res = "deleted"
    /\ Cardinality(DOMAIN Account.passwords) = 1
    /\ Account.custom_categories # <<>>

\* a is a prefix of b
IsPrefix(a, b) == Len(a) <= Len(b) /\ SubSeq(b, 1, Len(a)) = a

\* the categories of every account, in memory and in users.json, are free of
\* duplicates and none is a standard category
CategoriesValid ==
    \A us \in {load_users(usersFile), users} : \A k \in DOMAIN us :
        /\ NoDuplicates(us[k].custom_categories)
        /\ Range(us[k].custom_categories) \cap Range(get_categories) = {}

\* C11: create_new_category refuses, changing nothing, an empty name and a name
\* equal to a standard category or to a category the account already has, and
\* otherwise appends the name to the account's custom_categories (the name
\* stays appended when the save_users that follows raises); so the custom
\* categories of an account stay free of duplicates, apart from the standard
\* ones, and only ever grow at the end, in users and in every users.json
\* that can be read.
C11_Step ==
    /\ (pc = "new_category" /\ last'.op = "create_new_category") =>
        LET name == last'.arg
            old == Account.custom_categories
            refused == /\ users' = users /\ usersFile' = usersFile
                       /\ pc' = "new_category" /\ pend' = pend
        IN  /\ name = <<>> => last'.res = "empty" /\ refused
            /\ (name # <<>> /\ (\E i \in 1..Len(get_categories) : get_categories[i] = name)) =>
                    last'.res = "exists" /\ refused
            /\ (name # <<>> /\ (\E i \in 1..Len(old) : old[i] = name)) =>
                    last'.res = "exists" /\ refused
            /\ (/\ name # <<>>
                /\ \A i \in 1..Len(get_categories) : get_categories[i] # name
                /\ \A i \in 1..Len(old) : old[i] # name) =>
                    /\ last'.res \in {"created", "UnicodeEncodeError"}
                    /\ users'[loginName].custom_categories = old \o <<name>>
                    /\ users'[loginName].passwords = Account.passwords
                    /\ users'[loginName].master_password = Account.master_password
    /\ (pc \in SessionPcs /\ pc' \in SessionPcs) =>
            IsPrefix(Account.custom_categories, users'[loginName].custom_categories)
    /\ ~load_users_raises(usersFile') =>
            \A k \in DOMAIN load_users(usersFile) :
                /\ k \in DOMAIN load_users(usersFile')
                /\ IsPrefix(load_users(usersFile)[k].custom_categories,
                            load_users(usersFile')[k].custom_categories)
    /\ CategoriesValid'

C11_CategoriesAppendOnly == [][C11_Step]_vars

\* the name of the account's first category was refused, the account having
\* two categories of its own
C11_Witness ==
    /\ pc = "new_category" /\ last.op = "create_new_category" /\ last.res = "exists"
    /\ Len(Account.custom_categories) = 2
    /\ last.arg = Account.custom_categories[1]

\* out is text with only characters of the alphabet replaced, each in place
InPlace(text, out) ==
    /\ Len(out) = Len(text)
    /\ \A i \in 1..Len(text) : text[i] \notin Range(CHARSET) => out[i] = text[i]
    /\ Range(text) \cap Range(CHARSET) = {} => out = text

\* C12: caesar_cipher returns a string of the length of its text in which
\* every character outside CHARSET stands unchanged where it stood, for every
\* text, shift and direction; a text with no character of CHARSET comes back
\* as it is.
C12_InPlace ==
    /\ cStage \in {"applied", "inverted"} => InPlace(cText, cOut)
    /\ cStage = "inverted" => InPlace(cOut, cBack)

\* a text of the longest length that mixes characters of the alphabet with
\* others was changed
C12_Witness ==
    /\ cStage = "applied" /\ Len(cText) = MaxLen /\ cOut # cText
    /\ Range(cText) \cap Range(CHARSET) # {}
    /\ Range(cText) \ Range(CHARSET) # {}

\* C13: with a shift that is a multiple of len(CHARSET) (0, the length, minus
\* the length, ...) caesar_cipher returns its text, in either direction.
C13_IdentityShift ==
    cShift % Len(CHARSET) = 0 =>
        /\ cStage \in {"applied", "inverted"} => cOut = cText
        /\ cStage = "inverted" => cBack = cOut

\* a text of the longest length with characters of the alphabet went through a
\* negative multiple of the alphabet length, decrypting
C13_Witness ==
    /\ cStage = "applied" /\ cDecrypt /\ Len(cText) = MaxLen
    /\ cShift < 0 /\ cShift % Len(CHARSET) = 0
    /\ Range(cText) \cap Range(CHARSET) # {}

\* the step is a create_account that returned, a create_new_category that
\* returned, or the exit from a session
AccountCreated == last'.op \in {"create_account", "login_create"} /\ last'.res = "none"
CategoryCreated == last'.op = "create_new_category" /\ last'.res = "created"
SessionLeft == last'.op = "exit_session"

\* C14: users.json changes only when create_account returns, when
\* create_new_category returns and when a session is left through its menu,
\* and it then holds the whole dict users of that moment; add_password,
\* update_password and delete_password change users only, so a session ended
\* by an interrupt or an error at the menu prompt leaves users.json as the
\* last of those three wrote it.
C14_Step ==
    /\ usersFile' # usersFile => (AccountCreated \/ CategoryCreated \/ SessionLeft)
    /\ AccountCreated => load_users(usersFile') = users' /\ usersFile' # usersFile
    /\ (pc = "new_category" /\ CategoryCreated) =>
            load_users(usersFile') = users' /\ usersFile' # usersFile
    /\ (pc = "session" /\ SessionLeft) =>
            load_users(usersFile') = users /\ pc' = "main"
    /\ (/\ pc \in SessionPcs
        /\ last'.op \in {"add_password", "update_password", "delete_password"}) =>
            usersFile' = usersFile
    /\ (pc \in SessionPcs /\ last'.op = "input") => usersFile' = usersFile

C14_PersistPoints == [][C14_Step]_vars

\* C15: an add_password that does not add its record, wherever it stops (at
\* the category prompts, at the password prompt, in the generator, also after
\* create_new_category has made a new category for it), leaves the account's
\* records and custom_categories as they were when it was called.
C15_Step ==
    (/\ pc \in {"select_category", "new_category", "add_password"}
     /\ pc' = "session"
     /\ ~(last'.op = "add_password" /\ last'.res = "added")) =>
        /\ users'[loginName].passwords = pend.before.passwords
        /\ users'[loginName].custom_categories = pend.before.custom_categories

C15_AddAllOrNothing == [][C15_Step]_vars

\* the resources of a listing are in ascending order, none twice
Ascending(lines) ==
    \A i, j \in 1..Len(lines) : i < j => StrLess(lines[i].resource, lines[j].resource)

\* every line shows the plaintext and the category of its record
LinesTrue(lines) ==
    \A i \in 1..Len(lines) :
        /\ lines[i].resource \in DOMAIN Account.passwords
        /\ lines[i].password = plainMem[lines[i].resource]
        /\ lines[i].category = Account.passwords[lines[i].resource].category

\* C16: show_passwords_by_category prints exactly the records of the account
\* whose category is the one selected, each once, with its plaintext password,
\* in ascending order of resource name by code point; a category with no
\* record is reported, not raised; nothing is changed.
C16_Step ==
    (/\ pc = "session" /\ last'.op = "show_by_category"
     /\ last'.res \notin {"invalid_choice", "ValueError"}) =>
        LET category == last'.arg
            lines == last'.out
            wanted == {r \in DOMAIN Account.passwords :
                         Account.passwords[r].category = category}
        IN  /\ {lines[i].resource : i \in 1..Len(lines)} = wanted
            /\ Len(lines) = Cardinality(wanted)
            /\ Ascending(lines)
            /\ LinesTrue(lines)
            /\ last'.res = IF wanted = {} THEN "empty" ELSE "listed"
            /\ NothingChanged

C16_ListByCategory == [][C16_Step]_vars

\* two of the account's three records were listed, the one that starts with a
\* capital letter first
C16_Witness ==
    /\ pc = "session" /\ last.op = "show_by_category" /\ last.res = "listed"
    /\ Cardinality(DOMAIN Account.passwords) = 3
    /\ Len(last.out) = 2
    /\ last.out[1].resource = S_google

\* two characters that differ at most by case
SameLetter(a, b) == a = b \/ UpperChar(a) = <<b>> \/ UpperChar(b) = <<a>>

\* needle occurs in hay, case ignored
ContainsNoCase(hay, needle) ==
    \E i \in 0..(Len(hay) - Len(needle)) :
        \A j \in 1..Len(needle) : SameLetter(hay[i + j], needle[j])

\* C17: search_passwords with a non-empty query prints exactly the records
\* whose resource name contains the query, case ignored, each once with its
\* plaintext password and its category, in ascending order of resource name;
\* an empty query is reported as such, prints no record and raises nothing;
\* nothing is changed.
C17_Step ==
    (pc = "session" /\ last'.op = "search") =>
        LET q == last'.arg
            lines == last'.out
            wanted == {r \in DOMAIN Account.passwords : ContainsNoCase(r, q)}
        IN  /\ q = <<>> => last'.res = "empty_query" /\ lines = <<>>
            /\ q # <<>> =>
                /\ {lines[i].resource : i \in 1..Len(lines)} = wanted
                /\ Len(lines) = Cardinality(wanted)
                /\ Ascending(lines)
                /\ LinesTrue(lines)
                /\ last'.res = IF wanted = {} THEN "nothing_found" ELSE "listed"
            /\ NothingChanged

C17_Search == [][C17_Step]_vars

\* a query in capital letters found two of the account's three records
C17_Witness ==
    /\ pc = "session" /\ last.op = "search" /\ last.res = "listed"
    /\ Cardinality(DOMAIN Account.passwords) = 3
    /\ Len(last.out) = 2
    /\ Lower(last.arg) # last.arg

\* C18: show_all_passwords prints every record of the account exactly once,
\* in the group of its own category; the groups are in ascending order of
\* category and the records of a group in ascending order of resource name.
C18_Step ==
    (pc = "session" /\ last'.op = "show_all") =>
        LET groups == last'.out
            passwords == Account.passwords
            places(r) == {<<i, j>> \in (1..Len(groups)) \X (1..Cardinality(DOMAIN passwords)) :
                            j <= Len(groups[i].items) /\ groups[i].items[j].resource = r}
        IN  /\ last'.res = IF DOMAIN passwords = {} THEN "empty" ELSE "listed"
            /\ \A r \in DOMAIN passwords : Cardinality(places(r)) = 1
            /\ \A i \in 1..Len(groups) :
                /\ groups[i].items # <<>>
                /\ Ascending(groups[i].items)
                /\ \A j \in 1..Len(groups[i].items) :
                    /\ groups[i].items[j].resource \in DOMAIN passwords
                    /\ passwords[groups[i].items[j].resource].category = groups[i].category
            /\ \A i, j \in 1..Len(groups) :
                    i < j => StrLess(groups[i].category, groups[j].category)
            /\ NothingChanged

C18_ListAll == [][C18_Step]_vars

\* three records were printed in two groups
C18_Witness ==
    /\ pc = "session" /\ last.op = "show_all" /\ last.res = "listed"
    /\ Len(last.out) = 2
    /\ Cardinality(DOMAIN Account.passwords) = 3
    /\ \E i \in 1..2 : Len(last.out[i].items) = 2

\* users.json is there and is not JSON
Unreadable(f) == f.exists /\ ~f.json

\* C19: load_users returns the empty dict for a missing users.json; for one
\* that is there but empty or not JSON it raises JSONDecodeError, which
\* create_account and login pass on to main(): no account is created, no
\* session opens and the file stays as it is.  The empty dict is otherwise
\* only what a users.json holding the JSON of no account loads as.
C19_Step ==
    /\ (pc = "main" /\ last'.op \in {"create_account", "login"}) =>
        /\ Unreadable(usersFile) =>
            /\ last'.res = "JSONDecodeError"
            /\ pc' = "main" /\ users' = EmptyStore
        /\ ~usersFile.exists =>
            /\ last'.res # "JSONDecodeError"
            /\ last'.op = "login" => last'.res = "no_accounts"
            /\ (last'.op = "create_account" /\ last'.res = "none") =>
                    Cardinality(DOMAIN users') = 1
        /\ (last'.op = "login" /\ last'.res = "no_accounts") =>
            (~usersFile.exists \/ (usersFile.json /\ usersFile.doc = {}))
    /\ Unreadable(usersFile) => (usersFile' = usersFile /\ pc' \notin SessionPcs)

C19_LoadFails == [][C19_Step]_vars

\* create_account was refused beside a users.json of no bytes
C19_Witness ==
    /\ last.op = "create_account" /\ last.res = "JSONDecodeError"
    /\ usersFile = EmptyUsersFile /\ pc = "main"

\* C20: whatever users.json held, after save_users(S) it loads as S, for
\* every store S (the one of no account too): a load_users that follows a
\* save_users(S) returns S, and nothing of what the file held before is left.
C20_Step ==
    /\ last'.op = "save_users" =>
        /\ ~load_users_raises(usersFile')
        /\ load_users(usersFile') = last'.arg
    /\ (last.op = "save_users" /\ last'.op = "load_users") =>
        /\ last'.res = "ok"
        /\ users' = last.arg
        /\ DOMAIN users' = DOMAIN last.arg

C20_SaveLoadRoundTrip == [][C20_Step]_vars

\* C21: every call of get_categories returns the same list of 10 names, in a
\* list object of its own: whatever was appended to or removed from the lists
\* returned before, the call returns the 10 names and leaves those lists as
\* they are.
C21_Step ==
    last'.op = "get_categories" =>
        LET id == last'.arg
        IN  /\ Len(last'.out) = 10
            /\ last'.out = get_categories
            /\ id \notin DOMAIN lists
            /\ \A j \in DOMAIN lists : lists'[j] = lists[j]
            /\ \A j \in DOMAIN lists : lists[j] = get_categories => lists'[id] = lists[j]

C21_FreshCategories == [][C21_Step]_vars

\* a call returned the 10 names after "Test" was appended to one list returned
\* earlier and a name removed from another
C21_Witness ==
    /\ last.op = "get_categories" /\ last.arg = MaxLists
    /\ \E j \in DOMAIN lists : Len(lists[j]) > 10 /\ lists[j][11] = S_test
    /\ \E j \in DOMAIN lists : Len(lists[j]) < 10

\* the characters generate_password may draw from
Pool(use_digits, use_special) ==
    (65..90) \cup (97..122)
        \cup (IF use_digits THEN 48..57 ELSE {})
        \cup (IF use_special THEN {33, 64, 35, 36, 37, 94, 38, 42} ELSE {})

\* C22: generate_password(length, use_digits, use_special) returns a string of
\* length characters, the empty string for a length of 0 or less, each an
\* ASCII letter, or a digit if use_digits, or one of !@#$%^&* if use_special.
C22_Generated ==
    last.op = "generate_password" =>
        LET length == last.arg[1]
            pwd == last.out
        IN  /\ Len(pwd) = IF length > 0 THEN length ELSE 0
            /\ length <= 0 => pwd = <<>>
            /\ \A i \in 1..Len(pwd) : pwd[i] \in Pool(last.arg[2], last.arg[3])

\* 12 characters without digits, capital letters and special characters
C22_Witness ==
    /\ last.op = "generate_password" /\ last.arg[1] = 12
    /\ ~last.arg[2] /\ last.arg[3]
    /\ last.arg[4] = <<51, 52>>
    /\ \E i \in 1..12 : last.out[i] \in {33, 64, 35, 36, 37, 94, 38, 42}
    /\ \E i \in 1..12 : last.out[i] \in 65..90

\* the 32 punctuation marks !"#$%&'()*+,-./:;<=>?@[\]^_`{|}~
Punctuation32 ==
    <<33, 34, 35, 36, 37, 38, 39, 40, 41, 42, 43, 44, 45, 46, 47, 58, 59, 60, 61, 62,
      63, 64, 91, 92, 93, 94, 95, 96, 123, 124, 125, 126>>

\* the 31 punctuation marks "#$%&'()*+,-./:;<=>?@[\]^_`{|}~
Punctuation31 ==
    <<34, 35, 36, 37, 38, 39, 40, 41, 42, 43, 44, 45, 46, 47, 58, 59, 60, 61, 62,
      63, 64, 91, 92, 93, 94, 95, 96, 123, 124, 125, 126>>

\* 0-9, a-z, A-Z
AlphaNumeric62 ==
    <<48, 49, 50, 51, 52, 53, 54, 55, 56, 57>>
        \o <<97, 98, 99, 100, 101, 102, 103, 104, 105, 106, 107, 108, 109, 110, 111,
             112, 113, 114, 115, 116, 117, 118, 119, 120, 121, 122>>
        \o <<65, 66, 67, 68, 69, 70, 71, 72, 73, 74, 75, 76, 77, 78, 79, 80, 81, 82,
             83, 84, 85, 86, 87, 88, 89, 90>>

\* load_charset() found no charset.txt
LoadedDefault == last.op = "load_charset" /\ last.res = "written"

\* C23 as stated: when no alphabet is persisted, load_charset establishes and
\* persists exactly the digits 0-9, a-z, A-Z followed by the punctuation set
\* "#$%&'()*+,-./:;<=>?@[\]^_`{|}~ (31 marks), without duplicates.
C23_DefaultAsClaimed ==
    LoadedDefault =>
        /\ CHARSET = AlphaNumeric62 \o Punctuation31
        /\ charsetFile = [exists |-> TRUE, content |-> AlphaNumeric62 \o Punctuation31]
        /\ NoDuplicates(CHARSET)

\* C23 (amended): when no alphabet is persisted, load_charset establishes and
\* persists exactly the digits 0-9, a-z, A-Z followed by the punctuation set
\* !"#$%&'()*+,-./:;<=>?@[\]^_`{|}~ (32 marks, '!' first), in that order,
\* without duplicates.
C23_DefaultAlphabet ==
    LoadedDefault =>
        /\ CHARSET = AlphaNumeric62 \o Punctuation32
        /\ charsetFile = [exists |-> TRUE, content |-> AlphaNumeric62 \o Punctuation32]
        /\ NoDuplicates(CHARSET)

\* load_charset() has run without a charset.txt, has written one, and the
\* alphabet it returned holds '!' right after 'Z'
C23_Witness ==
    /\ LoadedDefault /\ last.arg = NoCharsetFile
    /\ charsetFile.exists /\ charsetFile.content = CHARSET
    /\ Len(CHARSET) = 94 /\ CHARSET[62] = 90 /\ CHARSET[63] = 33

\* C24: every character of the input found in the alphabet at index idx comes
\* out as the alphabet character at the index j in 0..L-1 congruent to
\* idx + d*shift modulo L (d = 1 to encrypt, -1 to decrypt); so encrypting
\* with shift -k gives what decrypting with shift k gives, and every
\* character of the alphabet, '!' included, comes out different whenever
\* shift mod L # 0.
C24_Index ==
    (cStage \in {"applied", "inverted"} /\ NoDuplicates(CHARSET)) =>
        LET L == Len(CHARSET)
            d == IF cDecrypt THEN -1 ELSE 1
        IN  /\ Len(cOut) = Len(cText)
            /\ \A i \in 1..Len(cText) : \A idx \in 0..(L - 1) :
                CHARSET[idx + 1] = cText[i] =>
                    /\ \E j \in 0..(L - 1) :
                        /\ cOut[i] = CHARSET[j + 1]
                        /\ (j - (idx + d * cShift)) % L = 0
                    /\ cShift % L # 0 => cOut[i] # cText[i]
            /\ cOut = caesar_cipher(cText, -cShift, ~cDecrypt)

\* "bcd" has been encrypted with shift -1 over the default alphabet to "abc"
C24_Witness ==
    /\ cStage = "applied" /\ ~cDecrypt /\ cShift = -1
    /\ cText = <<98, 99, 100>> /\ cOut = <<97, 98, 99>>
    /\ 33 \in Range(CHARSET)

\* every record of every account of the store is under a standard category or
\* under one of that account's own
RecordsCategorised(us) ==
    \A k \in DOMAIN us : \A r \in DOMAIN us[k].passwords :
        \/ \E i \in 1..Len(get_categories) : get_categories[i] = us[k].passwords[r].category
        \/ \E i \in 1..Len(us[k].custom_categories) :
                us[k].custom_categories[i] = us[k].passwords[r].category

\* C25: in every reachable state the category of every record of an account
\* is a standard category or one of that account's custom categories, in
\* memory and in users.json, whatever the order of additions (with a category
\* created on the way), updates, deletions and category creations; the
\* category add_password is about to store is such a category too.
C25_RecordCategories ==
    /\ RecordsCategorised(users)
    /\ RecordsCategorised(load_users(usersFile))
    /\ pc = "add_password" => RecordsCategorised(
            [k \in {loginName} |->
                [Account EXCEPT !.passwords =
                    Put(@, pend.resource, [encrypted |-> <<>>, category |-> pend.category])]])

\* after an update the account holds a record under a category of its own and
\* a record under a standard one, and users.json holds a record under a
\* category of the account's own
C25_Witness ==
    /\ pc = "session" /\ last.op = "update_password" /\ last.res = "updated"
    /\ \E r \in DOMAIN Account.passwords :
            Account.passwords[r].category \in Range(Account.custom_categories)
    /\ \E r \in DOMAIN Account.passwords :
            Account.passwords[r].category \in Range(get_categories)
    /\ \E k \in DOMAIN load_users(usersFile) : \E r \in DOMAIN load_users(usersFile)[k].passwords :
            load_users(usersFile)[k].passwords[r].category
                \in Range(load_users(usersFile)[k].custom_categories)

\* what user_session's menu entries report
SessionOps ==
    {"add_password", "select_category", "create_new_category", "update_password",
     "delete_password", "generate", "show_all", "show_by_category", "search",
     "exit_session", "user_menu"}

\* C26: a session is opened only by a login() whose master password equalled
\* the stored one of that account at one of its 3 tries, or by a
\* create_account that has just put the account into users.json; the menu
\* entries of user_session run only inside a session, which stays on its
\* account; for a login that users.json (one load_users can read) does not
\* hold, login() asks for no master password and raises UserNotFoundError
\* unless a create_account is run; and a login() that does not open a session
\* leaves users.json and the dict it loaded as they were (what the
\* create_account it may run does when it fails is create_account's).
C26_Step ==
    /\ (pc \notin SessionPcs /\ pc' \in SessionPcs) =>
        /\ pc' = "session"
        /\ loginName' \in DOMAIN users'
        /\ users' = load_users(usersFile')
        /\ \/ /\ pc = "login_pw" /\ last'.op = "login_attempt"
              /\ tries \in 0..2
              /\ loginName' = loginName
              /\ loginName \in DOMAIN load_users(usersFile)
              /\ last'.arg = load_users(usersFile)[loginName].master_password
              /\ usersFile' = usersFile
           \/ /\ pc \in {"main", "login_create"} /\ AccountCreated
              /\ loginName' \notin DOMAIN load_users(usersFile)
              /\ loginName' = last'.arg[1]
              /\ users'[loginName'] =
                    [master_password |-> last'.arg[2], passwords |-> <<>>,
                     custom_categories |-> <<>>]
    /\ pc \notin SessionPcs => last'.op \notin SessionOps
    /\ (pc \in SessionPcs /\ pc' \in SessionPcs) => loginName' = loginName
    /\ pc' = "login_pw" =>
        /\ loginName' \in DOMAIN load_users(usersFile')
        /\ users' = load_users(usersFile')
    /\ (/\ pc = "main" /\ last'.op = "login" /\ ~load_users_raises(usersFile)
        /\ last'.arg \notin DOMAIN load_users(usersFile)) =>
        /\ pc' = "login_create"
        /\ usersFile' = usersFile /\ users' = load_users(usersFile)
    /\ pc = "login_create" =>
        /\ last'.op # "login_attempt"
        /\ (last'.op = "login_create" /\ last'.res # "UserNotFoundError") =>
                /\ Len(last'.arg) = 3
                /\ last'.res \in {"none", "InvalidInputError", "UserExistsError",
                                  "UnicodeEncodeError"}
    /\ (/\ pc \in {"main", "login_create", "login_pw"}
        /\ last'.op \in {"login", "login_create", "login_attempt"}
        /\ last'.res \in {"UserNotFoundError", "AuthenticationError", "wrong"}) =>
            /\ usersFile' = usersFile
            /\ pc' # "session"
            /\ users' = users \/ (users' = EmptyStore /\ pc' = "main")

C26_SessionGate == [][C26_Step]_vars

\* with two accounts under different master passwords in users.json, a
\* session was opened at the third try of a login
C26_Witness ==
    /\ pc = "session" /\ last.op = "login_attempt" /\ last.res = "logged_in"
    /\ tries = 2
    /\ \E k \in DOMAIN users :
            k # loginName /\ users[k].master_password # Account.master_password

\* C27: a step taken inside the session of an account (a menu entry, its
\* prompts, leaving the session, an interrupt) leaves every other account as
\* it was, in users and in users.json, and leaves the account's own master
\* password as it was; users.json gains a login only when create_account
\* returns, outside any session, and never loses one.
C27_Step ==
    LET file == load_users(usersFile)
        file2 == load_users(usersFile')
    IN  /\ pc \in SessionPcs =>
            /\ loginName \in DOMAIN users /\ loginName \in DOMAIN file
            /\ DOMAIN users = DOMAIN file
            /\ \A k \in DOMAIN users \ {loginName} : users[k] = file[k]
            /\ Account.master_password = file[loginName].master_password
            /\ DOMAIN file2 = DOMAIN file
            /\ \A k \in DOMAIN file \ {loginName} : file2[k] = file[k]
            /\ file2[loginName].master_password = file[loginName].master_password
            /\ pc' \in SessionPcs =>
                /\ DOMAIN users' = DOMAIN users
                /\ \A k \in DOMAIN users \ {loginName} : users'[k] = users[k]
                /\ users'[loginName].master_password = Account.master_password
        /\ DOMAIN file \subseteq DOMAIN file2
        /\ DOMAIN file2 # DOMAIN file =>
            /\ AccountCreated /\ pc \notin SessionPcs
            /\ DOMAIN file2 = DOMAIN file \cup {last'.arg[1]}
            /\ \A k \in DOMAIN file : file2[k] = file[k]

C27_OtherAccounts == [][C27_Step]_vars

====
